---------------------------- MODULE Spec2Model ----------------------------
(***************************************************************************)
(* Model of the tool-use orchestration loop of pdf-tree:                   *)
(*   src/src/agent/agent.ts    Agent (executeTool, buildMessages,          *)
(*                             streamResponse)                             *)
(*   src/src/agent/message.ts  MessageSchema, createMessage                *)
(*   src/src/agent/types.ts    FinishReasonSchema, ToolCallSchema          *)
(*                                                                         *)
(* A JavaScript string is a sequence of atoms.  An atom is either one of   *)
(* the characters that matter to JSON (brace, bracket, colon, comma,       *)
(* quote, backslash, blank), a digit, one of the words null, true and      *)
(* false, or an indivisible run of other characters (a tool name, a word   *)
(* of text).                                                               *)
(*                                                                         *)
(* The REPL of src/unnamed/part_002 is the caller of streamResponse, and   *)
(* the default capabilities of src/src/agent/tools.ts (second half of the  *)
(* file, lines 196-409) are modelled as functions of their argument        *)
(* mapping.                                                                *)
(***************************************************************************)
EXTENDS Integers, Sequences, FiniteSets, TLC

(***************************************************************************)
(* Strings and JSON values                                                 *)
(***************************************************************************)
Q == "\""
BS == "\\"
WS == " "
Digits == {"0", "1", "2", "3", "4", "5", "6", "7", "8", "9"}

\* The JavaScript values JSON.parse can produce.  kv holds the members of an
\* object in insertion order (the order JSON.stringify writes them), or the
\* elements of an array (with empty keys).
JNull == [t |-> "null", s |-> <<>>, kv |-> <<>>]
JBool(b) == [t |-> "bool", s |-> IF b THEN <<"true">> ELSE <<"false">>, kv |-> <<>>]
JNum(digits) == [t |-> "num", s |-> digits, kv |-> <<>>]
JStr(str) == [t |-> "str", s |-> str, kv |-> <<>>]
JObj(members) == [t |-> "obj", s |-> <<>>, kv |-> members]
JArr(elems) == [t |-> "arr", s |-> <<>>, kv |-> elems]
Member(key, val) == [k |-> key, v |-> val]

\* Assigning obj[key] = val: a repeated key keeps its place and takes the
\* later value.
SetMember(members, key, val) ==
  IF \E j \in 1..Len(members) : members[j].k = key
  THEN [j \in 1..Len(members) |->
          IF members[j].k = key THEN Member(key, val) ELSE members[j]]
  ELSE Append(members, Member(key, val))

ParseFail == [ok |-> FALSE, v |-> JNull, pos |-> 0]
ParseOk(val, next) == [ok |-> TRUE, v |-> val, pos |-> next]

RECURSIVE SkipWs(_, _)
SkipWs(text, i) ==
  IF i <= Len(text) /\ text[i] = WS THEN SkipWs(text, i + 1) ELSE i

RECURSIVE NumEnd(_, _)
NumEnd(text, i) ==
  IF i <= Len(text) /\ text[i] \in Digits THEN NumEnd(text, i + 1) ELSE i

\* The characters of a string literal whose opening quote is at i - 1.
RECURSIVE StrScan(_, _, _)
StrScan(text, i, acc) ==
  IF i > Len(text) THEN ParseFail
  ELSE IF text[i] = Q THEN ParseOk(JStr(acc), i + 1)
  ELSE IF text[i] = BS
       THEN IF i + 1 <= Len(text) /\ text[i + 1] \in {Q, BS}
            THEN StrScan(text, i + 2, Append(acc, text[i + 1]))
            ELSE ParseFail
  ELSE StrScan(text, i + 1, Append(acc, text[i]))

RECURSIVE ParseValue(_, _)
RECURSIVE ParseMembers(_, _, _)
RECURSIVE ParseElements(_, _, _)

ParseValue(text, i) ==
  IF i > Len(text) THEN ParseFail
  ELSE IF text[i] = "null" THEN ParseOk(JNull, i + 1)
  ELSE IF text[i] \in {"true", "false"} THEN ParseOk(JBool(text[i] = "true"), i + 1)
  ELSE IF text[i] \in Digits
       THEN ParseOk(JNum(SubSeq(text, i, NumEnd(text, i) - 1)), NumEnd(text, i))
  ELSE IF text[i] = Q THEN StrScan(text, i + 1, <<>>)
  ELSE IF text[i] = "{"
       THEN LET j == SkipWs(text, i + 1)
            IN IF j <= Len(text) /\ text[j] = "}"
               THEN ParseOk(JObj(<<>>), j + 1)
               ELSE ParseMembers(text, j, <<>>)
  ELSE IF text[i] = "["
       THEN LET j == SkipWs(text, i + 1)
            IN IF j <= Len(text) /\ text[j] = "]"
               THEN ParseOk(JArr(<<>>), j + 1)
               ELSE ParseElements(text, j, <<>>)
  ELSE ParseFail

\* "key" : value { , "key" : value } "}"  with i at the first key.
ParseMembers(text, i, acc) ==
  IF i > Len(text) \/ text[i] # Q THEN ParseFail
  ELSE LET key == StrScan(text, i + 1, <<>>)
       IN IF ~key.ok THEN ParseFail
          ELSE LET c == SkipWs(text, key.pos)
               IN IF c > Len(text) \/ text[c] # ":" THEN ParseFail
                  ELSE LET val == ParseValue(text, SkipWs(text, c + 1))
                       IN IF ~val.ok THEN ParseFail
                          ELSE LET n == SkipWs(text, val.pos)
                                   members == SetMember(acc, key.v.s, val.v)
                               IN IF n > Len(text) THEN ParseFail
                                  ELSE IF text[n] = "}"
                                       THEN ParseOk(JObj(members), n + 1)
                                  ELSE IF text[n] = ","
                                       THEN ParseMembers(text, SkipWs(text, n + 1), members)
                                  ELSE ParseFail

\* value { , value } "]"  with i at the first value.
ParseElements(text, i, acc) ==
  LET val == ParseValue(text, i)
  IN IF ~val.ok THEN ParseFail
     ELSE LET n == SkipWs(text, val.pos)
              elems == Append(acc, Member(<<>>, val.v))
          IN IF n > Len(text) THEN ParseFail
             ELSE IF text[n] = "]" THEN ParseOk(JArr(elems), n + 1)
             ELSE IF text[n] = ","
                  THEN ParseElements(text, SkipWs(text, n + 1), elems)
             ELSE ParseFail

\* JSON.parse(text): ok = FALSE stands for the SyntaxError it throws.
JSONparse(text) ==
  LET r == ParseValue(text, SkipWs(text, 1))
  IN IF r.ok /\ SkipWs(text, r.pos) = Len(text) + 1
     THEN [ok |-> TRUE, v |-> r.v]
     ELSE [ok |-> FALSE, v |-> JNull]

RECURSIVE Escape(_)
Escape(str) ==
  IF str = <<>> THEN <<>>
  ELSE (IF Head(str) \in {Q, BS} THEN <<BS, Head(str)>> ELSE <<Head(str)>>)
       \o Escape(Tail(str))

Quote(str) == <<Q>> \o Escape(str) \o <<Q>>

RECURSIVE JSONstringify(_)
RECURSIVE StringifyMembers(_, _)
RECURSIVE StringifyElements(_, _)

\* JSON.stringify(value), without indentation.
JSONstringify(val) ==
  IF val.t = "null" THEN <<"null">>
  ELSE IF val.t \in {"num", "bool"} THEN val.s
  ELSE IF val.t = "str" THEN Quote(val.s)
  ELSE IF val.t = "obj" THEN <<"{">> \o StringifyMembers(val.kv, 1) \o <<"}">>
  ELSE <<"[">> \o StringifyElements(val.kv, 1) \o <<"]">>

StringifyMembers(members, j) ==
  IF j > Len(members) THEN <<>>
  ELSE (IF j > 1 THEN <<",">> ELSE <<>>)
       \o Quote(members[j].k) \o <<":">> \o JSONstringify(members[j].v)
       \o StringifyMembers(members, j + 1)

StringifyElements(elems, j) ==
  IF j > Len(elems) THEN <<>>
  ELSE (IF j > 1 THEN <<",">> ELSE <<>>)
       \o JSONstringify(elems[j].v)
       \o StringifyElements(elems, j + 1)


(***************************************************************************)
(* Messages (message.ts, types.ts)                                         *)
(***************************************************************************)
\* An optional field that is not set.
Undefined == "undefined"

\* z.enum(["stop", "tool_calls", "length"])
FinishReasonSchema == {"stop", "tool_calls", "length"}

ToolCall(id, name, arguments) == [id |-> id, name |-> name, arguments |-> arguments]

\* ToolCallSchema: id and name are strings, arguments is a record (a plain
\* object); null, numbers, strings and arrays are rejected.
ToolCallSchemaOk(tc) == tc.arguments.t = "obj"

\* The optional fields of a Message: finishReason is Undefined when unset,
\* hasToolCalls tells whether toolCalls is set, toolCallId and error are the
\* empty string when unset (the code only tests them for truthiness).
MessageParams(role, content, finishReason, hasToolCalls, toolCalls, toolCallId, error) ==
  [role |-> role, content |-> content, finishReason |-> finishReason,
   hasToolCalls |-> hasToolCalls, toolCalls |-> toolCalls,
   toolCallId |-> toolCallId, error |-> error]

NoMessage == MessageParams("none", <<>>, Undefined, FALSE, <<>>, <<>>, <<>>)

MessageSchemaOk(params) ==
  /\ params.role \in {"user", "assistant", "system", "tool"}
  /\ params.finishReason = Undefined \/ params.finishReason \in FinishReasonSchema
  /\ \A j \in 1..Len(params.toolCalls) : ToolCallSchemaOk(params.toolCalls[j])

\* createMessage: MessageSchema.parse of the parameters; ok = FALSE stands
\* for the ZodError it throws.
createMessage(params) ==
  IF MessageSchemaOk(params)
  THEN [ok |-> TRUE, msg |-> params]
  ELSE [ok |-> FALSE, msg |-> NoMessage]

UserMessage(text) == MessageParams("user", text, Undefined, FALSE, <<>>, <<>>, <<>>)
AssistantMessage(text, fin) == MessageParams("assistant", text, fin, FALSE, <<>>, <<>>, <<>>)

(***************************************************************************)
(* The agent's configuration (agent.ts, constructor)                       *)
(***************************************************************************)
DOOM_LOOP_THRESHOLD == 3

SystemPrompt == <<"SYSTEM_PROMPT">>

Find == <<"find">>
Boom == <<"boom">>
Hang == <<"hang">>
Nope == <<"nope">>

\* this.tools: the capabilities supplied at construction, by name.
Tools == {Find, Boom, Hang}

\* this.toolMap.get(name) is defined exactly for these names.
toolMap == Tools

\* What tool.execute(args) may do: return a string, throw an Error, reject
\* with a value that is no Error, or never settle (no outcome at all).
Returned(str) == [kind |-> "return", isError |-> FALSE, message |-> str, value |-> JNull]
ThrownError(message) == [kind |-> "throw", isError |-> TRUE, message |-> message, value |-> JNull]
ThrownValue(val) == [kind |-> "throw", isError |-> FALSE, message |-> <<>>, value |-> val]

FindResult == <<"{", Q, "found", Q, ":", "1", "}">>

Outcomes(name) ==
  IF name = Find THEN {Returned(FindResult)}
  ELSE IF name = Boom
       THEN {ThrownError(<<"index missing">>), ThrownValue(JNull)}
  ELSE {}

\* String(value) for the values a capability may reject with.
ToJSString(val) ==
  IF val.t \in {"str", "num", "bool"} THEN val.s
  ELSE IF val.t = "null" THEN <<"null">>
  ELSE <<"[object Object]">>

\* getOpenAITools(): the schemas of this.tools (here their names); the empty
\* set stands for undefined, i.e. no tools key in the request.
getOpenAITools == Tools

(***************************************************************************)
(* executeTool (agent.ts 43-60): the strings it returns                    *)
(***************************************************************************)
\* Faulty variant: the error does not say which name was unknown.
UnknownToolResult_Anonymous(name) ==
  JSONstringify(JObj(<<Member(<<"error">>, JStr(<<"Unknown tool">>))>>))

UnknownToolResult(name) ==
  JSONstringify(JObj(<<Member(<<"error">>, JStr(<<"Unknown tool: ">> \o name))>>))

ErrorResult(errorMessage, name) ==
  JSONstringify(JObj(<<Member(<<"error">>, JStr(errorMessage)),
                       Member(<<"tool">>, JStr(name))>>))

TimeoutMessage == <<"Tool execution timeout">>

\* The catch block: error instanceof Error ? error.message : String(error)
CaughtResult(outcome, name) ==
  ErrorResult(IF outcome.isError THEN outcome.message ELSE ToJSString(outcome.value),
              name)

(***************************************************************************)
(* buildMessages (agent.ts 62-98)                                          *)
(***************************************************************************)
ApiMessage(role, content, contentNull, toolCallId, toolCalls) ==
  [role |-> role, content |-> content, contentNull |-> contentNull,
   tool_call_id |-> toolCallId, tool_calls |-> toolCalls]

\* Faulty variant: the arguments are serialized twice.
ApiToolCall_DoubleEncoded(tc) ==
  [id |-> tc.id, type |-> "function", name |-> tc.name,
   arguments |-> JSONstringify(JStr(JSONstringify(tc.arguments)))]

ApiToolCall(tc) ==
  [id |-> tc.id, type |-> "function", name |-> tc.name,
   arguments |-> JSONstringify(tc.arguments)]

HistoryMessage(msg) ==
  IF msg.role = "tool" /\ msg.toolCallId # <<>>
  THEN ApiMessage("tool", msg.content, FALSE, msg.toolCallId, <<>>)
  ELSE IF msg.role = "assistant" /\ msg.hasToolCalls /\ Len(msg.toolCalls) > 0
       THEN ApiMessage("assistant", msg.content, msg.content = <<>>, <<>>,
                       [j \in 1..Len(msg.toolCalls) |-> ApiToolCall(msg.toolCalls[j])])
  ELSE ApiMessage(msg.role, msg.content, FALSE, <<>>, <<>>)

\* Faulty variant: the system message is left out.
buildMessages_NoSystem(hist) ==
  [j \in 1..Len(hist) |-> HistoryMessage(hist[j])]

buildMessages(hist) ==
  <<ApiMessage("system", SystemPrompt, FALSE, <<>>, <<>>)>>
  \o [j \in 1..Len(hist) |-> HistoryMessage(hist[j])]

LoopNudge ==
  ApiMessage("user", <<"You seem to be stuck in a loop. Please provide your answer now based on what you've found so far.">>,
             FALSE, <<>>, <<>>)

(***************************************************************************)
(* The completion stream: chunks and tool-call fragments                   *)
(***************************************************************************)
Frag(index, id, name, arguments) ==
  [index |-> index, id |-> id, name |-> name, arguments |-> arguments]

Chunk(content, fragments, finish) ==
  [content |-> content, tool_calls |-> fragments, finish_reason |-> finish]

TextChunk(text) == Chunk(text, <<>>, "")
ToolChunk(fragments) == Chunk(<<>>, fragments, "")
FinishChunk(finish) == Chunk(<<>>, <<>>, finish)

\* toolCallBuffers is a Map: its entries are kept in insertion order, and
\* set() on a key that is present keeps the key's place.
\* Faulty variant: the lookup ignores the index and returns the newest buffer.
BufferAt_Latest(buffers, index) ==
  IF buffers # <<>> THEN buffers[Len(buffers)]
  ELSE [index |-> index, id |-> <<>>, name |-> <<>>, args |-> <<>>]

BufferAt(buffers, index) ==
  IF \E j \in 1..Len(buffers) : buffers[j].index = index
  THEN LET j == CHOOSE k \in 1..Len(buffers) : buffers[k].index = index
       IN buffers[j]
  ELSE [index |-> index, id |-> <<>>, name |-> <<>>, args |-> <<>>]

SetBuffer(buffers, buf) ==
  IF \E j \in 1..Len(buffers) : buffers[j].index = buf.index
  THEN [j \in 1..Len(buffers) |->
          IF buffers[j].index = buf.index THEN buf ELSE buffers[j]]
  ELSE Append(buffers, buf)

\* Faulty variant: an id or name that is already set is kept.
MergeFragment_FirstWins(buffers, tc) ==
  LET existing == BufferAt(buffers, tc.index)
  IN SetBuffer(buffers,
       [index |-> tc.index,
        id |-> IF existing.id = <<>> THEN tc.id ELSE existing.id,
        name |-> IF existing.name = <<>> THEN tc.name ELSE existing.name,
        args |-> IF tc.arguments # <<>> THEN existing.args \o tc.arguments
                 ELSE existing.args])

\* Lines 138-146, for one fragment.
MergeFragment(buffers, tc) ==
  LET existing == BufferAt(buffers, tc.index)
  IN SetBuffer(buffers,
       [index |-> tc.index,
        id |-> IF tc.id # <<>> THEN tc.id ELSE existing.id,
        name |-> IF tc.name # <<>> THEN tc.name ELSE existing.name,
        args |-> IF tc.arguments # <<>> THEN existing.args \o tc.arguments
                 ELSE existing.args])

RECURSIVE MergeFragments(_, _)
MergeFragments(buffers, fragments) ==
  IF fragments = <<>> THEN buffers
  ELSE MergeFragments(MergeFragment(buffers, Head(fragments)), Tail(fragments))

\* Lines 158-163: the parsed arguments, or the diagnostic placeholder.
ParseErrorArgs(raw) == JObj(<<Member(<<"_parseError">>, JStr(raw))>>)

ParsedArgs(raw) ==
  IF JSONparse(raw).ok THEN JSONparse(raw).v ELSE ParseErrorArgs(raw)

\* Faulty variant: a buffer whose arguments do not parse is dropped.
FinalizeToolCalls_DropUnparseable(buffers) ==
  LET kept == SelectSeq(buffers, LAMBDA b : JSONparse(b.args).ok)
  IN [j \in 1..Len(kept) |->
        ToolCall(kept[j].id, kept[j].name, JSONparse(kept[j].args).v)]

\* Lines 156-169: the buffers drained in the Map's iteration order.
FinalizeToolCalls(buffers) ==
  [j \in 1..Len(buffers) |->
     ToolCall(buffers[j].id, buffers[j].name, ParsedArgs(buffers[j].args))]

(***************************************************************************)
(* Doom loop detection (agent.ts 171-180)                                  *)
(***************************************************************************)
CallSignature(toolCall) ==
  [name |-> toolCall.name, args |-> JSONstringify(toolCall.arguments)]

\* recentToolCalls.slice(-DOOM_LOOP_THRESHOLD)
LastN(log) ==
  IF Len(log) <= DOOM_LOOP_THRESHOLD THEN log
  ELSE SubSeq(log, Len(log) - DOOM_LOOP_THRESHOLD + 1, Len(log))

\* Faulty variant: two identical calls in a row already count as a loop.
IsDoomLoop_AfterTwo(log, callSignature) ==
  /\ Len(log) >= 2
  /\ \A j \in Len(log) - 1..Len(log) :
       /\ log[j].name = callSignature.name
       /\ log[j].args = callSignature.args

IsDoomLoop(log, callSignature) ==
  /\ Len(LastN(log)) = DOOM_LOOP_THRESHOLD
  /\ \A j \in 1..Len(LastN(log)) :
       /\ LastN(log)[j].name = callSignature.name
       /\ LastN(log)[j].args = callSignature.args

(***************************************************************************)
(* Events yielded by streamResponse                                        *)
(***************************************************************************)
Event(type, content, message) == [type |-> type, content |-> content, message |-> message]

TextEvent(text) == Event("text", text, NoMessage)

LoopNotice == <<"\n[Detected repeated tool calls - generating response...]\n">>

RECURSIVE JoinNames(_)
JoinNames(calls) ==
  IF calls = <<>> THEN <<>>
  ELSE Head(calls).name \o (IF Len(calls) > 1 THEN <<", ">> ELSE <<>>) \o JoinNames(Tail(calls))

ToolCallEvent(calls, message) ==
  Event("tool_call", <<"[Calling ">> \o JoinNames(calls) \o <<"...]">>, message)

ToolResultEvent(toolCall, message) ==
  Event("tool_result", <<"[">> \o toolCall.name \o <<" result received]">>, message)

(***************************************************************************)
(* Bounds of the model, and what the completion service may send           *)
(***************************************************************************)
\* Milliseconds the clock advances during one invocation.
MaxTicks == 1
\* Elements of the chunk_ids array of a get_chunks call.
MaxIds == 3
\* Completion requests of the while loop in one invocation.
MaxRequests == 3
\* Chunks carrying text or tool-call fragments, per invocation.
MaxChunks == 3

ArgsQ1 == <<"{", Q, "q", Q, ":", "1", "}">>
ArgsQ2 == <<"{", Q, "q", Q, ":", "2", "}">>
ArgsQ1Spaced == <<"{", WS, Q, "q", Q, ":", WS, "1", WS, "}">>
ArgsQP == <<"{", Q, "q", Q, ":", "1", ",", Q, "p", Q, ":", "2", "}">>
ArgsPQ == <<"{", Q, "p", Q, ":", "2", ",", Q, "q", Q, ":", "1", "}">>
ArgsOpen == <<"{", Q, "q", Q, ":">>
ArgsClose == <<"1", "}">>

CallId(index) == IF index = 0 THEN <<"call_a">> ELSE <<"call_b">>

\* The kinds of conversation the service is exercised with ("chat", "tools",
\* "repeat", "deltas"); each has its own small menu of chunks.
FinishValues == {"stop", "length", "tool_calls", "content_filter"}

ChunkMenu(service) ==
  IF service = "chat"
  THEN {TextChunk(<<"Hi">>), TextChunk(<<"!">>), Chunk(<<"Bye">>, <<>>, "stop"),
        ToolChunk(<<Frag(0, CallId(0), Find, ArgsQ1)>>)}
       \cup {FinishChunk(f) : f \in FinishValues}
  ELSE IF service = "tools"
  THEN {FinishChunk("tool_calls"), FinishChunk("stop"),
        ToolChunk(<<Frag(1, CallId(1), Find, ArgsQ1)>>)}
       \cup {ToolChunk(<<Frag(0, CallId(0), n, ArgsQ1)>>) : n \in {Find, Boom, Hang, Nope}}
  ELSE IF service = "repeat"
  THEN {TextChunk(<<"Hi">>), FinishChunk("tool_calls"), FinishChunk("stop"),
        ToolChunk(<<Frag(0, CallId(0), Find, ArgsQ1), Frag(1, CallId(1), Find, ArgsQ1)>>),
        ToolChunk(<<Frag(0, CallId(0), Find, ArgsQ1)>>),
        ToolChunk(<<Frag(0, CallId(0), Find, ArgsQ2)>>),
        ToolChunk(<<Frag(0, CallId(0), Find, ArgsQP), Frag(1, CallId(1), Find, ArgsPQ)>>)}
  ELSE {FinishChunk("tool_calls"),
        ToolChunk(<<Frag(0, CallId(0), Find, ArgsOpen)>>),
        ToolChunk(<<Frag(0, <<>>, <<>>, ArgsClose)>>),
        ToolChunk(<<Frag(1, CallId(1), Nope, ArgsQ1Spaced), Frag(0, <<>>, <<>>, ArgsClose)>>),
        ToolChunk(<<Frag(1, <<"call_c">>, Find, <<"null">>)>>)}

\* The conversations streamResponse is called in: the caller's history and
\* the service's behaviour.
FirstQuestion == <<UserMessage(<<"What is section 4.7 about?">>)>>

SecondQuestion ==
  <<UserMessage(<<"Hello">>), AssistantMessage(<<"Hi">>, "stop"),
    UserMessage(<<"What is section 4.7 about?">>)>>

FollowUp ==
  <<UserMessage(<<"What is section 4.7 about?">>),
    MessageParams("assistant", <<>>, "tool_calls", TRUE,
                  <<ToolCall(CallId(0), Find, JSONparse(ArgsQ1).v)>>, <<>>, <<>>),
    MessageParams("tool", FindResult, Undefined, FALSE, <<>>, CallId(0), <<>>),
    AssistantMessage(<<"Hi">>, "stop"),
    UserMessage(<<"Hello">>)>>

Conversation(service, history) == [service |-> service, history |-> history]

Conversations ==
  {Conversation("chat", FirstQuestion), Conversation("chat", SecondQuestion),
   Conversation("tools", FirstQuestion), Conversation("repeat", FollowUp),
   Conversation("deltas", FirstQuestion)}

(***************************************************************************)
(* The default capabilities (tools.ts 196-409)                             *)
(***************************************************************************)
\* The value of a property the object does not have.
JUndefined == [t |-> "undefined", s |-> <<>>, kv |-> <<>>]

\* args[key] for a plain object.
Get(obj, key) ==
  IF \E j \in 1..Len(obj.kv) : obj.kv[j].k = key
  THEN obj.kv[CHOOSE j \in 1..Len(obj.kv) : obj.kv[j].k = key].v
  ELSE JUndefined

DecimalDigit == <<"0", "1", "2", "3", "4", "5", "6", "7", "8", "9">>

\* The decimal digits JSON.stringify writes for a length.
RECURSIVE NumStr(_)
NumStr(n) ==
  IF n < 10 THEN <<DecimalDigit[n + 1]>>
  ELSE NumStr(n \div 10) \o <<DecimalDigit[(n % 10) + 1]>>

StrArray(strs) == JArr([j \in 1..Len(strs) |-> Member(<<>>, JStr(strs[j]))])

\* semantic-tree.json as a small document: two chunks, two headings, two
\* sections.
DocChunk(id, text, pageStart, pageEnd, blockIds) ==
  [id |-> id, content |-> text, pageStart |-> pageStart, pageEnd |-> pageEnd,
   blockIds |-> blockIds]

DocHeading(heading, level, chunkIds) ==
  [heading |-> heading, level |-> level, chunkIds |-> chunkIds]

DocSection(section, chunkIds) == [section |-> section, chunkIds |-> chunkIds]

data ==
  [title |-> <<"Contract">>,
   summary |-> <<"A", WS, "contract">>,
   chunks |-> <<DocChunk(<<"chunk-0">>, <<"Scope", WS, "of", WS, "work">>, 1, 1,
                         << <<"block-0">> >>),
                DocChunk(<<"chunk-1">>, <<"Fees">>, 2, 3,
                         << <<"block-1">>, <<"block-2">> >>)>>,
   headings |-> <<DocHeading(<<"4.7", WS, "Scope">>, 2, << <<"chunk-0">> >>),
                  DocHeading(<<"Fees">>, 1, << <<"chunk-1">> >>)>>,
   sections |-> <<DocSection(<<"4.7">>, << <<"chunk-0">> >>),
                  DocSection(<<"5">>, << <<"chunk-1">> >>)>>]

\* chunkMap.get(id): the position in data.chunks of the chunk the map holds
\* for the key (the last one with that id), 0 for undefined.  A key that is
\* not a string equals no id.
chunkMap(id) ==
  LET hits == {j \in 1..Len(data.chunks) : id.t = "str" /\ data.chunks[j].id = id.s}
  IN IF hits = {} THEN 0 ELSE CHOOSE j \in hits : \A k \in hits : k <= j

MissingField(field) ==
  Returned(JSONstringify(JObj(<<Member(<<"error">>,
                                       JStr(<<"Missing required field: ">> \o field))>>)))

\* Lines 241-246.
getDocSummary(args) ==
  Returned(JSONstringify(JObj(<<Member(<<"title">>, JStr(data.title)),
                                Member(<<"summary">>, JStr(data.summary))>>)))

\* String.prototype.toLowerCase on the words of the model.
LowerAtom(atom) ==
  IF atom = "Scope" THEN "scope"
  ELSE IF atom = "Fees" THEN "fees"
  ELSE IF atom = "Section" THEN "section"
  ELSE atom

toLowerCase(str) == [j \in 1..Len(str) |-> LowerAtom(str[j])]

\* The atoms that are numbers such as 5 or 4.7.
IsNumberAtom(atom) == atom \in Digits \cup {"4.7"}

\* str.replace(/^section\s*/i, ""): a leading word "section" and the blanks
\* after it are removed.
RECURSIVE DropBlanks(_)
DropBlanks(str) ==
  IF str # <<>> /\ Head(str) = WS THEN DropBlanks(Tail(str)) ELSE str

StripSection(str) ==
  IF str # <<>> /\ LowerAtom(Head(str)) = "section" THEN DropBlanks(Tail(str))
  ELSE str

\* str.split(/\s+/).filter(term => term.length > 0)
Terms(str) == SelectSeq(str, LAMBDA atom : atom # WS)

\* query.match(/(?:section\s*)?(\d+(?:\.\d+)?)/i)?.[1]: the first number of
\* the query, <<>> for undefined.
SectionNumberOf(query) ==
  LET numbers == SelectSeq(query, IsNumberAtom)
  IN IF numbers = <<>> THEN <<>> ELSE <<Head(numbers)>>

\* Lines 280-293: the filter over data.headings.
HeadingMatches(h, sectionNumber, searchTerms) ==
  \/ /\ sectionNumber # <<>>
     /\ Len(h.heading) >= 2
     /\ h.heading[1] = sectionNumber[1]
     /\ h.heading[2] \in {".", ":", WS}
  \/ \E j \in 1..Len(searchTerms) :
       \E k \in 1..Len(h.heading) : LowerAtom(h.heading[k]) = searchTerms[j]

HeadingJson(h) ==
  JObj(<<Member(<<"heading">>, JStr(h.heading)),
         Member(<<"level">>, JNum(NumStr(h.level))),
         Member(<<"chunkIds">>, StrArray(h.chunkIds))>>)

\* Lines 271-312: the search for a query that is a string.
HeadingsResult(query) ==
  LET sectionNumber == SectionNumberOf(query)
      searchTerms == Terms(StripSection(toLowerCase(query)))
      matches == SelectSeq(data.headings,
                           LAMBDA h : HeadingMatches(h, sectionNumber, searchTerms))
  IN IF Len(matches) = 0
     THEN Returned(JSONstringify(JObj(
            <<Member(<<"found">>, JBool(FALSE)),
              Member(<<"message">>,
                     JStr(<<"No headings found matching ", Q>> \o query \o <<Q>>)),
              Member(<<"suggestion">>,
                     JStr(<<"Try different keywords or search for a specific section number">>))>>)))
     ELSE Returned(JSONstringify(JObj(
            <<Member(<<"found">>, JBool(TRUE)),
              Member(<<"count">>, JNum(NumStr(Len(matches)))),
              Member(<<"headings">>,
                     JArr([j \in 1..Len(matches) |->
                             Member(<<>>, HeadingJson(matches[j]))]))>>)))

\* Faulty variant: the query is used without the typeof test, so a query
\* that is no string makes query.match throw a TypeError.
searchHeadings_Unchecked(args) ==
  LET query == Get(args, <<"query">>)
  IN IF query.t # "str" THEN ThrownError(<<"query.match is not a function">>)
     ELSE HeadingsResult(query.s)

\* Lines 265-313.
searchHeadings(args) ==
  LET query == Get(args, <<"query">>)
  IN IF query.t # "str" THEN MissingField(<<"query">>)
     ELSE HeadingsResult(query.s)

\* data.sections.map((s) => s.section).join(", ")
RECURSIVE JoinSections(_)
JoinSections(sections) ==
  IF sections = <<>> THEN <<>>
  ELSE Head(sections).section
       \o (IF Len(sections) > 1 THEN <<", ">> ELSE <<>>)
       \o JoinSections(Tail(sections))

\* Lines 331-357.
searchSections(args) ==
  LET sectionNumber == Get(args, <<"section_number">>)
  IN IF sectionNumber.t # "str" THEN MissingField(<<"section_number">>)
     ELSE LET hits == SelectSeq(data.sections,
                                LAMBDA sec : \/ sec.section = sectionNumber.s
                                             \/ sec.section = StripSection(sectionNumber.s))
          IN IF hits = <<>>
             THEN Returned(JSONstringify(JObj(
                    <<Member(<<"found">>, JBool(FALSE)),
                      Member(<<"message">>,
                             JStr(<<"Section ", Q>> \o sectionNumber.s \o <<Q, " not found">>)),
                      Member(<<"availableSections">>, JStr(JoinSections(data.sections)))>>)))
             ELSE Returned(JSONstringify(JObj(
                    <<Member(<<"found">>, JBool(TRUE)),
                      Member(<<"section">>, JStr(Head(hits).section)),
                      Member(<<"chunkIds">>, StrArray(Head(hits).chunkIds)),
                      Member(<<"chunkCount">>, JNum(NumStr(Len(Head(hits).chunkIds))))>>)))

ChunkJson(c) ==
  JObj(<<Member(<<"id">>, JStr(c.id)),
         Member(<<"content">>, JStr(c.content)),
         Member(<<"pageStart">>, JNum(NumStr(c.pageStart))),
         Member(<<"pageEnd">>, JNum(NumStr(c.pageEnd))),
         Member(<<"blockIds">>, StrArray(c.blockIds))>>)

\* Faulty variant: a chunk that is already among the results is not
\* returned again.
RECURSIVE CollectChunks_Once(_, _, _)
CollectChunks_Once(ids, results, notFound) ==
  IF ids = <<>> THEN [results |-> results, notFound |-> notFound]
  ELSE LET id == Head(ids).v
           j == chunkMap(id)
           entry == Member(<<>>, ChunkJson(data.chunks[j]))
       IN IF j # 0
          THEN CollectChunks_Once(Tail(ids),
                                  IF \E k \in 1..Len(results) : results[k] = entry
                                  THEN results ELSE Append(results, entry),
                                  notFound)
          ELSE CollectChunks_Once(Tail(ids), results, Append(notFound, Member(<<>>, id)))

\* Lines 382-398: the loop over chunkIds.
RECURSIVE CollectChunks(_, _, _)
CollectChunks(ids, results, notFound) ==
  IF ids = <<>> THEN [results |-> results, notFound |-> notFound]
  ELSE LET id == Head(ids).v
           j == chunkMap(id)
       IN IF j # 0
          THEN CollectChunks(Tail(ids),
                             Append(results, Member(<<>>, ChunkJson(data.chunks[j]))),
                             notFound)
          ELSE CollectChunks(Tail(ids), results, Append(notFound, Member(<<>>, id)))

\* Lines 376-405.
getChunks(args) ==
  LET chunkIds == Get(args, <<"chunk_ids">>)
  IN IF chunkIds.t # "arr"
     THEN MissingField(<<"chunk_ids", " (must be an array)">>)
     ELSE LET got == CollectChunks(chunkIds.kv, <<>>, <<>>)
          IN Returned(JSONstringify(JObj(
               <<Member(<<"found">>, JNum(NumStr(Len(got.results)))),
                 Member(<<"chunks">>, JArr(got.results))>>
               \o (IF Len(got.notFound) > 0
                   THEN <<Member(<<"notFound">>, JArr(got.notFound))>>
                   ELSE <<>>))))

GetDocSummary == <<"get_doc_summary">>
SearchHeadings == <<"search_headings">>
SearchSections == <<"search_sections">>
GetChunks == <<"get_chunks">>

\* Line 408.
defaultTools == {GetDocSummary, SearchHeadings, SearchSections, GetChunks}

\* tool.execute(args) of the default capability with this name.
execute(name, args) ==
  IF name = GetDocSummary THEN getDocSummary(args)
  ELSE IF name = SearchHeadings THEN searchHeadings(args)
  ELSE IF name = SearchSections THEN searchSections(args)
  ELSE getChunks(args)

\* The argument mappings the capabilities are executed with: what the
\* schema of a tool call admits (a plain object), among them the
\* placeholder for arguments that did not parse.
IdMenu == {JStr(<<"chunk-0">>), JStr(<<"chunk-1">>), JStr(<<"chunk-9">>), JNum(<<"1">>)}

RECURSIVE IdLists(_)
IdLists(n) ==
  IF n = 0 THEN {<<>>}
  ELSE IdLists(n - 1)
       \cup {Append(ids, Member(<<>>, id)) : ids \in IdLists(n - 1), id \in IdMenu}

ValueMenu ==
  {JNull, JNum(<<"5">>), JBool(TRUE), JObj(<<>>), JStr(<<"4.7">>),
   JStr(<<"Section", WS, "4.7">>), JStr(<<"section", WS, "5">>), JStr(<<"fees">>),
   JStr(<<"budget">>), JStr(<<>>), JArr(<<Member(<<>>, JStr(<<"chunk-0">>))>>)}

ArgsMenu ==
  {JObj(<<>>), ParseErrorArgs(ArgsOpen), ParseErrorArgs(<<>>)}
  \cup {JObj(<<Member(key, val)>>) :
          key \in {<<"query">>, <<"section_number">>, <<"chunk_ids">>},
          val \in ValueMenu}
  \cup {JObj(<<Member(<<"chunk_ids">>, JArr(ids))>>) : ids \in IdLists(MaxIds)}

\* No capability has been executed directly.
NotRun == [kind |-> "none", isError |-> FALSE, message |-> <<>>, value |-> JNull]

(***************************************************************************)
(* State of one streamResponse invocation                                  *)
(***************************************************************************)
VARIABLES
  history,          \* the caller's list, passed to streamResponse
  workingHistory,   \* line 111
  recentToolCalls,  \* line 112
  content,          \* line 122
  finishReason,     \* line 123
  toolCallBuffers,  \* line 124
  fragments,        \* every tool-call fragment of the turn's stream, as it arrived
  toolCalls,        \* line 156
  toolCallMessage,  \* line 204
  toolResultMessage, \* line 223
  callIndex,        \* position of the for loops of lines 172 and 220
  result,           \* line 221
  pc,               \* where the generator is suspended
  thrown,           \* the error the generator ended with, if any
  events,           \* everything yielded so far
  requests,         \* every completions.create call so far
  executions,       \* every tool.execute call so far
  running,          \* the execute calls that have not settled
  loopDeclared,     \* the doom loop branch was taken
  turnStart,        \* the lengths of the four logs when the turn was requested
  service,          \* what the completion service sends
  chunksLeft,       \* how many more chunks with text or fragments it may send
  streamed,         \* delta.content of each chunk with a delta since the request
  timed,            \* whether the run follows the millisecond clock
  stamps,           \* Date.now() at each message the generator created, in order
  replHistory,      \* the REPL's history list (part_002 line 7)
  assistantContent, \* part_002 line 75
  repl,             \* what the REPL is doing: "iterating" the events, "prompting"
                    \* for input, started on the "next" question, or "closed"
  directName,       \* the default capability executed on its own, if any
  directArgs,       \* the argument mapping it is executed with
  directOutcome     \* what its execute call did

vars == <<history, workingHistory, recentToolCalls, content, finishReason,
          toolCallBuffers, fragments, toolCalls, toolCallMessage, toolResultMessage,
          callIndex, result, pc,
          thrown, events, requests, executions, running, loopDeclared,
          turnStart, service, chunksLeft, streamed, timed, stamps, replHistory, assistantContent,
          repl, directName, directArgs, directOutcome>>

turnVars == <<content, finishReason, toolCallBuffers, fragments>>
callVars == <<toolCalls, toolCallMessage, toolResultMessage, callIndex, result>>
directVars == <<directName, directArgs, directOutcome>>
envVars == <<history, service, directVars>>
fixedVars == <<history, service, turnStart, directVars>>
replVars == <<replHistory, assistantContent, repl>>
budgetVars == <<chunksLeft, streamed>>
generatorVars == <<history, workingHistory, recentToolCalls, turnVars, callVars,
                   pc, thrown, events, requests, executions, running,
                   loopDeclared, turnStart, service, budgetVars, timed, stamps>>

Marks(hist, evts, execs, log) ==
  [history |-> Len(hist), events |-> Len(evts), executions |-> Len(execs),
   logged |-> Len(log)]

Start ==
  /\ \E c \in Conversations :
       /\ history = c.history
       /\ service = c.service
  /\ workingHistory = history
  /\ recentToolCalls = <<>>
  /\ content = <<>>
  /\ finishReason = ""
  /\ toolCallBuffers = <<>>
  /\ fragments = <<>>
  /\ toolCalls = <<>>
  /\ toolCallMessage = NoMessage
  /\ toolResultMessage = NoMessage
  /\ callIndex = 1
  /\ result = <<>>
  /\ pc = "Request"
  /\ thrown = "none"
  /\ events = <<>>
  /\ requests = <<>>
  /\ executions = <<>>
  /\ running = {}
  /\ loopDeclared = FALSE
  /\ turnStart = Marks(history, <<>>, <<>>, <<>>)
  /\ chunksLeft = MaxChunks
  /\ streamed = <<>>
  /\ stamps = <<>>
  /\ replHistory = history
  /\ assistantContent = <<>>
  /\ repl = "iterating"

Idle ==
  /\ directName = <<>>
  /\ directArgs = JObj(<<>>)
  /\ directOutcome = NotRun

\* One invocation of streamResponse by the REPL; message identifiers are
\* left out.
Init == Start /\ timed = FALSE /\ Idle

\* The same, with the identifiers of the messages the generator creates.
InitTimed == Start /\ timed = TRUE /\ Idle

\* A default capability is about to be executed with an argument mapping.
InitDirect ==
  /\ Start
  /\ timed = FALSE
  /\ directName \in defaultTools
  /\ directArgs \in ArgsMenu
  /\ directOutcome = NotRun

Request(messages, tools) == [messages |-> messages, tools |-> tools]

RECURSIVE ConcatContents(_)
ConcatContents(evts) ==
  IF evts = <<>> THEN <<>> ELSE Head(evts).content \o ConcatContents(Tail(evts))

\* The message the REPL stores for an error it caught (part_002 105-115).
ErrorMessage(errorMessage) ==
  MessageParams("assistant", <<>>, Undefined, FALSE, <<>>, <<>>, errorMessage)

\* The text of the events of a list, and the messages they carry.
RECURSIVE EventMessages(_)
EventMessages(evts) ==
  IF evts = <<>> THEN <<>>
  ELSE (IF Head(evts).type # "text" /\ Head(evts).message # NoMessage
        THEN <<Head(evts).message>> ELSE <<>>)
       \o EventMessages(Tail(evts))

RECURSIVE EventTexts(_)
EventTexts(evts) ==
  IF evts = <<>> THEN <<>>
  ELSE (IF Head(evts).type = "text" THEN Head(evts).content ELSE <<>>)
       \o EventTexts(Tail(evts))

\* message.ts 26-29: the identifier of a message is "msg-" followed by the
\* millisecond clock at its creation.
MessageId(now) == <<"msg-", now>>

\* The messages the generator has created so far: those it has pushed and
\* the one it is suspended with at a yield.
Created ==
  Len(workingHistory) - Len(history)
  + (IF pc \in {"ToolCallYielded", "ResultYielded"} THEN 1 ELSE 0)

\* Date.now() does not go back; how far it has advanced since the previous
\* creation is up to the timing of the run.
DateNow ==
  LET now == IF stamps = <<>> THEN 0 ELSE stamps[Len(stamps)]
  IN /\ timed' = timed
     /\ IF timed /\ Created' > Created
        THEN \E t \in now..MaxTicks : stamps' = Append(stamps, t)
        ELSE stamps' = stamps

\* Faulty variant: the generator works on the caller's list itself, so what
\* it pushes lands in the caller's list too.
Consumer_SharedList ==
  LET yielded == SubSeq(events', Len(events) + 1, Len(events'))
      text == assistantContent \o EventTexts(yielded)
      hist == replHistory
              \o SubSeq(workingHistory', Len(workingHistory) + 1, Len(workingHistory'))
              \o EventMessages(yielded)
      ended == pc # "Done" /\ pc' = "Done"
  IN /\ assistantContent' = text
     /\ repl' = IF ended THEN "prompting" ELSE repl
     /\ replHistory' =
          IF ~ended THEN hist
          ELSE IF thrown' # "none" THEN Append(hist, ErrorMessage(<<thrown'>>))
          ELSE IF text # <<>> THEN Append(hist, AssistantMessage(text, "stop"))
          ELSE hist

\* part_002 lines 77-119: the REPL is the consumer of the generator.  It
\* runs while the generator is suspended at a yield, and once more, without
\* awaiting anything, when the generator returns or throws.
Consumer ==
  LET yielded == SubSeq(events', Len(events) + 1, Len(events'))
      text == assistantContent \o EventTexts(yielded)
      hist == replHistory \o EventMessages(yielded)
      ended == pc # "Done" /\ pc' = "Done"
  IN /\ assistantContent' = text
     /\ repl' = IF ended THEN "prompting" ELSE repl
     /\ replHistory' =
          IF ~ended THEN hist
          ELSE IF thrown' # "none" THEN Append(hist, ErrorMessage(<<thrown'>>))
          ELSE IF text # <<>> THEN Append(hist, AssistantMessage(text, "stop"))
          ELSE hist

\* Lines 115-125: the next completion request of the while loop.
CreateCompletion ==
  /\ pc = "Request"
  /\ Len(requests) < MaxRequests
  /\ requests' = Append(requests, Request(buildMessages(workingHistory), getOpenAITools))
  /\ content' = <<>>
  /\ finishReason' = ""
  /\ toolCallBuffers' = <<>>
  /\ fragments' = <<>>
  /\ streamed' = <<>>
  /\ pc' = "Streaming"
  /\ turnStart' = Marks(workingHistory, events, executions, recentToolCalls)
  /\ UNCHANGED <<workingHistory, recentToolCalls, callVars, thrown, events,
                 executions, running, loopDeclared, envVars, chunksLeft>>
  /\ DateNow
  /\ Consumer

\* A chunk that carries more than a finish_reason.
HasPayload(c) == c.content # <<>> \/ c.tool_calls # <<>>

\* The service may send chunk c now.
MaySend(c) == HasPayload(c) => chunksLeft > 0

Spend(c) ==
  /\ chunksLeft' = IF HasPayload(c) THEN chunksLeft - 1 ELSE chunksLeft
  /\ streamed' = IF HasPayload(c) THEN Append(streamed, c.content) ELSE streamed

\* Faulty variant: the text is accumulated but not echoed as an event.
ConsumeChunk_NoEcho ==
  /\ pc = "Streaming"
  /\ finishReason = ""
  /\ \E c \in ChunkMenu(service) :
       /\ MaySend(c)
       /\ Spend(c)
       /\ content' = content \o c.content
       /\ toolCallBuffers' = MergeFragments(toolCallBuffers, c.tool_calls)
       /\ fragments' = fragments \o c.tool_calls
       /\ finishReason' = IF c.finish_reason # "" THEN c.finish_reason
                          ELSE finishReason
  /\ UNCHANGED <<workingHistory, recentToolCalls, callVars, pc, thrown, events,
                 requests, executions, running, loopDeclared, fixedVars>>
  /\ DateNow
  /\ Consumer

\* Lines 127-153: one chunk of the stream.
ConsumeChunk ==
  /\ pc = "Streaming"
  /\ finishReason = ""
  /\ \E c \in ChunkMenu(service) :
       /\ MaySend(c)
       /\ Spend(c)
       /\ content' = content \o c.content
       /\ events' = IF c.content # <<>> THEN Append(events, TextEvent(c.content))
                    ELSE events
       /\ toolCallBuffers' = MergeFragments(toolCallBuffers, c.tool_calls)
       /\ fragments' = fragments \o c.tool_calls
       /\ finishReason' = IF c.finish_reason # "" THEN c.finish_reason
                          ELSE finishReason
  /\ UNCHANGED <<workingHistory, recentToolCalls, callVars, pc, thrown,
                 requests, executions, running, loopDeclared, fixedVars>>
  /\ DateNow
  /\ Consumer

\* Faulty variant: a tool_calls turn without calls ends the generator.
FinalizeToolCallsStep_EmptyEnds ==
  /\ pc = "Streaming"
  /\ finishReason = "tool_calls"
  /\ toolCalls' = FinalizeToolCalls(toolCallBuffers)
  /\ callIndex' = 1
  /\ pc' = IF toolCallBuffers = <<>> THEN "Done" ELSE "Guard"
  /\ UNCHANGED <<workingHistory, recentToolCalls, turnVars, toolCallMessage,
                 toolResultMessage, result, thrown, events, requests,
                 executions, running, loopDeclared, fixedVars, budgetVars>>
  /\ DateNow
  /\ Consumer

\* Lines 155-169: the stream ended with finish_reason tool_calls.
FinalizeToolCallsStep ==
  /\ pc = "Streaming"
  /\ finishReason = "tool_calls"
  /\ toolCalls' = FinalizeToolCalls(toolCallBuffers)
  /\ callIndex' = 1
  /\ pc' = "Guard"
  /\ UNCHANGED <<workingHistory, recentToolCalls, turnVars, toolCallMessage,
                 toolResultMessage, result, thrown, events, requests,
                 executions, running, loopDeclared, fixedVars, budgetVars>>
  /\ DateNow
  /\ Consumer

\* Faulty variant: a length turn ends the generator.
AfterPlainTurn_StopOnLength(finish) == "Done"

\* Faulty variant: a stop turn is followed by another request.
AfterPlainTurn_RetryOnStop(finish) ==
  IF finish \in {"stop", "length"} THEN "Request" ELSE "Done"

\* Where the while loop goes after the assistant message of lines 241-248.
AfterPlainTurn(finish) ==
  IF finish = "stop" THEN "Done"
  ELSE IF finish = "length" THEN "Request"
  ELSE "Done"

\* Faulty variant: a turn whose finish_reason the schema rejects is retried.
FinishPlainTurn_Retry ==
  /\ pc = "Streaming"
  /\ finishReason # "tool_calls"
  /\ LET made == createMessage(MessageParams("assistant", content, finishReason,
                                              FALSE, <<>>, <<>>, <<>>))
     IN IF made.ok
        THEN /\ workingHistory' = Append(workingHistory, made.msg)
             /\ pc' = IF finishReason = "stop" THEN "Done" ELSE "Request"
        ELSE /\ workingHistory' = workingHistory
             /\ pc' = "Request"
  /\ UNCHANGED <<recentToolCalls, turnVars, callVars, thrown, events, requests,
                 executions, running, loopDeclared, fixedVars, budgetVars>>
  /\ DateNow
  /\ Consumer

\* Lines 241-258: the stream ended with any other finish_reason, or none.
FinishPlainTurn ==
  /\ pc = "Streaming"
  /\ finishReason # "tool_calls"
  /\ LET made == createMessage(MessageParams("assistant", content, finishReason,
                                              FALSE, <<>>, <<>>, <<>>))
     IN IF made.ok
        THEN /\ workingHistory' = Append(workingHistory, made.msg)
             /\ pc' = AfterPlainTurn(finishReason)
             /\ thrown' = thrown
        ELSE /\ workingHistory' = workingHistory
             /\ pc' = "Done"
             /\ thrown' = "ZodError"
  /\ UNCHANGED <<recentToolCalls, turnVars, callVars, events, requests,
                 executions, running, loopDeclared, fixedVars, budgetVars>>
  /\ DateNow
  /\ Consumer

\* Faulty variant: the calls before the one that repeats have been executed
\* by the time the loop is declared.
GuardCheck_AfterPreceding ==
  /\ pc = "Guard"
  /\ callIndex <= Len(toolCalls)
  /\ LET callSignature == CallSignature(toolCalls[callIndex])
     IN /\ recentToolCalls' = Append(recentToolCalls, callSignature)
        /\ IF IsDoomLoop(recentToolCalls', callSignature)
           THEN /\ events' = Append(events, TextEvent(LoopNotice))
                /\ loopDeclared' = TRUE
                /\ pc' = "LoopAbort"
                /\ callIndex' = callIndex
                /\ executions' = executions \o SubSeq(toolCalls, 1, callIndex - 1)
           ELSE /\ events' = events
                /\ loopDeclared' = loopDeclared
                /\ pc' = pc
                /\ callIndex' = callIndex + 1
                /\ executions' = executions
  /\ UNCHANGED <<workingHistory, turnVars, toolCalls, toolCallMessage,
                 toolResultMessage, result, thrown, requests, running,
                 fixedVars, budgetVars>>
  /\ DateNow
  /\ Consumer

\* Lines 172-181: one iteration of the doom loop detection.
GuardCheck ==
  /\ pc = "Guard"
  /\ callIndex <= Len(toolCalls)
  /\ LET callSignature == CallSignature(toolCalls[callIndex])
     IN /\ recentToolCalls' = Append(recentToolCalls, callSignature)
        /\ IF IsDoomLoop(recentToolCalls', callSignature)
           THEN /\ events' = Append(events, TextEvent(LoopNotice))
                /\ loopDeclared' = TRUE
                /\ pc' = "LoopAbort"
                /\ callIndex' = callIndex
           ELSE /\ events' = events
                /\ loopDeclared' = loopDeclared
                /\ pc' = pc
                /\ callIndex' = callIndex + 1
  /\ UNCHANGED <<workingHistory, turnVars, toolCalls, toolCallMessage,
                 toolResultMessage, result, thrown, requests, executions,
                 running, fixedVars, budgetVars>>
  /\ DateNow
  /\ Consumer

\* Lines 204-216: the assistant message of the turn and its tool_call event.
YieldToolCall ==
  /\ pc = "Guard"
  /\ callIndex > Len(toolCalls)
  /\ LET made == createMessage(MessageParams("assistant", content, "tool_calls",
                                              TRUE, toolCalls, <<>>, <<>>))
     IN IF made.ok
        THEN /\ toolCallMessage' = made.msg
             /\ events' = Append(events, ToolCallEvent(toolCalls, made.msg))
             /\ pc' = "ToolCallYielded"
             /\ thrown' = thrown
        ELSE /\ toolCallMessage' = toolCallMessage
             /\ events' = events
             /\ pc' = "Done"
             /\ thrown' = "ZodError"
  /\ UNCHANGED <<workingHistory, recentToolCalls, turnVars, toolCalls,
                 toolResultMessage, callIndex, result, requests, executions,
                 running, loopDeclared, fixedVars, budgetVars>>
  /\ DateNow
  /\ Consumer

\* Faulty variant: the assistant message is yielded but never pushed.
PushToolCallMessage_Skip ==
  /\ pc = "ToolCallYielded"
  /\ callIndex' = 1
  /\ pc' = IF toolCalls = <<>> THEN "Request" ELSE "Dispatch"
  /\ UNCHANGED <<workingHistory, recentToolCalls, turnVars, toolCalls,
                 toolCallMessage, toolResultMessage, result, thrown, events,
                 requests, executions, running, loopDeclared, fixedVars,
                 budgetVars>>
  /\ DateNow
  /\ Consumer

\* Line 218, and line 238 when the turn requested no call.
PushToolCallMessage ==
  /\ pc = "ToolCallYielded"
  /\ workingHistory' = Append(workingHistory, toolCallMessage)
  /\ callIndex' = 1
  /\ pc' = IF toolCalls = <<>> THEN "Request" ELSE "Dispatch"
  /\ UNCHANGED <<recentToolCalls, turnVars, toolCalls, toolCallMessage,
                 toolResultMessage, result, thrown, events, requests,
                 executions, running, loopDeclared, fixedVars, budgetVars>>
  /\ DateNow
  /\ Consumer

\* Lines 221 and 44-54: executeTool up to its await.
StartExecuteTool ==
  /\ pc = "Dispatch"
  /\ LET toolCall == toolCalls[callIndex]
     IN IF toolCall.name \notin toolMap
        THEN /\ result' = UnknownToolResult(toolCall.name)
             /\ pc' = "GotResult"
             /\ executions' = executions
             /\ running' = running
        ELSE /\ result' = result
             /\ pc' = "Executing"
             /\ executions' = Append(executions, toolCall)
             /\ running' = running \cup {Len(executions) + 1}
  /\ UNCHANGED <<workingHistory, recentToolCalls, turnVars, toolCalls,
                 toolCallMessage, toolResultMessage, callIndex, thrown, events,
                 requests, loopDeclared, fixedVars, budgetVars>>
  /\ DateNow
  /\ Consumer

\* Faulty variant: without the try/catch, what the capability throws ends
\* the generator.
ToolSettles_Uncaught ==
  /\ pc = "Executing"
  /\ \E outcome \in Outcomes(toolCalls[callIndex].name) :
       IF outcome.kind = "return"
       THEN result' = outcome.message /\ pc' = "GotResult" /\ thrown' = thrown
       ELSE result' = result /\ pc' = "Done" /\ thrown' = "tool"
  /\ running' = running \ {Len(executions)}
  /\ UNCHANGED <<workingHistory, recentToolCalls, turnVars, toolCalls,
                 toolCallMessage, toolResultMessage, callIndex, events,
                 requests, executions, loopDeclared, fixedVars, budgetVars>>
  /\ DateNow
  /\ Consumer

\* Lines 49-59: the capability settles before the deadline.
ToolSettles ==
  /\ pc = "Executing"
  /\ \E outcome \in Outcomes(toolCalls[callIndex].name) :
       result' = IF outcome.kind = "return" THEN outcome.message
                 ELSE CaughtResult(outcome, toolCalls[callIndex].name)
  /\ running' = running \ {Len(executions)}
  /\ pc' = "GotResult"
  /\ UNCHANGED <<workingHistory, recentToolCalls, turnVars, toolCalls,
                 toolCallMessage, toolResultMessage, callIndex, thrown, events,
                 requests, executions, loopDeclared, fixedVars, budgetVars>>
  /\ DateNow
  /\ Consumer

\* Faulty variant: without the race against the deadline, executeTool
\* returns only when the capability settles.
ToolTimeout_AwaitsCapability ==
  /\ pc = "Executing"
  /\ Outcomes(toolCalls[callIndex].name) # {}
  /\ result' = CaughtResult(ThrownError(TimeoutMessage), toolCalls[callIndex].name)
  /\ pc' = "GotResult"
  /\ UNCHANGED <<workingHistory, recentToolCalls, turnVars, toolCalls,
                 toolCallMessage, toolResultMessage, callIndex, thrown, events,
                 requests, executions, running, loopDeclared, fixedVars,
                 budgetVars>>
  /\ DateNow
  /\ Consumer

\* Lines 51-59: the deadline passes first; the capability is left running.
ToolTimeout ==
  /\ pc = "Executing"
  /\ Outcomes(toolCalls[callIndex].name) = {}
  /\ result' = CaughtResult(ThrownError(TimeoutMessage), toolCalls[callIndex].name)
  /\ pc' = "GotResult"
  /\ UNCHANGED <<workingHistory, recentToolCalls, turnVars, toolCalls,
                 toolCallMessage, toolResultMessage, callIndex, thrown, events,
                 requests, executions, running, loopDeclared, fixedVars,
                 budgetVars>>
  /\ DateNow
  /\ Consumer

\* Faulty variant: the tool message is pushed before its event is yielded.
YieldToolResult_PushFirst ==
  /\ pc = "GotResult"
  /\ LET made == createMessage(MessageParams("tool", result, Undefined, FALSE, <<>>,
                                              toolCalls[callIndex].id, <<>>))
     IN /\ toolResultMessage' = made.msg
        /\ workingHistory' = Append(workingHistory, made.msg)
        /\ events' = Append(events, ToolResultEvent(toolCalls[callIndex], made.msg))
  /\ pc' = "ResultYielded"
  /\ UNCHANGED <<recentToolCalls, turnVars, toolCalls, toolCallMessage,
                 callIndex, result, thrown, requests, executions, running,
                 loopDeclared, fixedVars, budgetVars>>
  /\ DateNow
  /\ Consumer

\* Lines 223-233: the tool message and its tool_result event.
YieldToolResult ==
  /\ pc = "GotResult"
  /\ LET made == createMessage(MessageParams("tool", result, Undefined, FALSE, <<>>,
                                              toolCalls[callIndex].id, <<>>))
     IN /\ toolResultMessage' = made.msg
        /\ events' = Append(events, ToolResultEvent(toolCalls[callIndex], made.msg))
  /\ pc' = "ResultYielded"
  /\ UNCHANGED <<workingHistory, recentToolCalls, turnVars, toolCalls,
                 toolCallMessage, callIndex,
                 result, thrown, requests, executions, running, loopDeclared,
                 fixedVars, budgetVars>>
  /\ DateNow
  /\ Consumer

\* Line 235, then the next call of the turn or line 238.
PushToolResultMessage ==
  /\ pc = "ResultYielded"
  /\ workingHistory' = Append(workingHistory, toolResultMessage)
  /\ callIndex' = callIndex + 1
  /\ pc' = IF callIndex < Len(toolCalls) THEN "Dispatch" ELSE "Request"
  /\ UNCHANGED <<recentToolCalls, turnVars, toolCalls, toolCallMessage,
                 toolResultMessage, result, thrown, events, requests,
                 executions, running, loopDeclared, fixedVars, budgetVars>>
  /\ DateNow
  /\ Consumer

\* Faulty variant: the final request offers the tools and the nudge is
\* kept in the working history.
CreateFinalCompletion_Nudged ==
  /\ pc = "LoopAbort"
  /\ workingHistory' = Append(workingHistory, UserMessage(LoopNudge.content))
  /\ requests' = Append(requests,
                        Request(buildMessages(workingHistory'), getOpenAITools))
  /\ pc' = "FinalStreaming"
  /\ UNCHANGED <<recentToolCalls, turnVars, callVars, thrown, events,
                 executions, running, loopDeclared, fixedVars, budgetVars>>
  /\ DateNow
  /\ Consumer

\* Lines 183-192: the final request, without tools.
CreateFinalCompletion ==
  /\ pc = "LoopAbort"
  /\ requests' = Append(requests,
                        Request(buildMessages(workingHistory) \o <<LoopNudge>>, {}))
  /\ pc' = "FinalStreaming"
  /\ UNCHANGED <<workingHistory, recentToolCalls, turnVars, callVars, thrown,
                 events, executions, running, loopDeclared, fixedVars, budgetVars>>
  /\ DateNow
  /\ Consumer

\* Lines 194-199: one chunk of the final stream.
ConsumeFinalChunk ==
  /\ pc = "FinalStreaming"
  /\ \E c \in ChunkMenu(service) :
       /\ MaySend(c)
       /\ Spend(c)
       /\ events' = IF c.content # <<>> THEN Append(events, TextEvent(c.content))
                    ELSE events
  /\ UNCHANGED <<workingHistory, recentToolCalls, turnVars, callVars, pc, thrown,
                 requests, executions, running, loopDeclared, fixedVars>>
  /\ DateNow
  /\ Consumer

\* Faulty variant: without the return of line 200 the while loop goes on.
FinalStreamEnd_Continue ==
  /\ pc = "FinalStreaming"
  /\ pc' = "Request"
  /\ UNCHANGED <<workingHistory, recentToolCalls, turnVars, callVars, thrown,
                 events, requests, executions, running, loopDeclared, fixedVars,
                 budgetVars>>
  /\ DateNow
  /\ Consumer

\* Line 200.
FinalStreamEnd ==
  /\ pc = "FinalStreaming"
  /\ pc' = "Done"
  /\ UNCHANGED <<workingHistory, recentToolCalls, turnVars, callVars, thrown,
                 events, requests, executions, running, loopDeclared, fixedVars,
                 budgetVars>>
  /\ DateNow
  /\ Consumer

\* Faulty variant: the failure is noted and the request is issued again.
TransportError_Retry ==
  /\ pc \in {"Request", "Streaming", "LoopAbort", "FinalStreaming"}
  /\ pc' = "Request"
  /\ thrown' = "transport"
  /\ UNCHANGED <<workingHistory, recentToolCalls, turnVars, callVars, events,
                 requests, executions, running, loopDeclared, fixedVars,
                 budgetVars>>
  /\ DateNow
  /\ Consumer

\* completions.create or the stream iteration throws (lines 115, 127, 188,
\* 194): nothing catches it.
TransportError ==
  /\ pc \in {"Request", "Streaming", "LoopAbort", "FinalStreaming"}
  /\ pc' = "Done"
  /\ thrown' = "transport"
  /\ UNCHANGED <<workingHistory, recentToolCalls, turnVars, callVars, events,
                 requests, executions, running, loopDeclared, fixedVars, budgetVars>>
  /\ DateNow
  /\ Consumer

\* What the user may type at the prompt (already trimmed).
Inputs == {<<"/quit">>, <<"/debug">>, <<"/clear">>, <<>>, <<"And section 5?">>}

\* Faulty variant: a question is pending while the events are iterated.
ReadInput_WhileIterating ==
  /\ repl \in {"prompting", "iterating"}
  /\ \E input \in Inputs :
       IF input = <<"/quit">>
       THEN repl' = "closed" /\ UNCHANGED <<replHistory, assistantContent>>
       ELSE IF input = <<"/clear">>
       THEN replHistory' = <<>> /\ UNCHANGED <<repl, assistantContent>>
       ELSE IF input \in {<<"/debug">>, <<>>}
       THEN UNCHANGED <<repl, replHistory, assistantContent>>
       ELSE /\ replHistory' = Append(replHistory, UserMessage(input))
            /\ assistantContent' = <<>>
            /\ repl' = "next"
  /\ UNCHANGED <<generatorVars, directVars>>

\* part_002 lines 22-76: the callback of rl.question, which runs only when a
\* question is pending, that is after prompt() (lines 50, 57, 62, 119, 123).
\* For a question it pushes the user message and calls streamResponse again;
\* the model follows the REPL up to that call.
ReadInput ==
  /\ repl = "prompting"
  /\ \E input \in Inputs :
       IF input = <<"/quit">>
       THEN repl' = "closed" /\ UNCHANGED <<replHistory, assistantContent>>
       ELSE IF input = <<"/clear">>
       THEN replHistory' = <<>> /\ UNCHANGED <<repl, assistantContent>>
       ELSE IF input \in {<<"/debug">>, <<>>}
       THEN UNCHANGED <<repl, replHistory, assistantContent>>
       ELSE /\ replHistory' = Append(replHistory, UserMessage(input))
            /\ assistantContent' = <<>>
            /\ repl' = "next"
  /\ UNCHANGED <<generatorVars, directVars>>

\* tools.ts: the execute function of a default capability runs to its end.
ExecuteDirect ==
  /\ directOutcome = NotRun
  /\ directName \in defaultTools
  /\ directOutcome' = execute(directName, directArgs)
  /\ UNCHANGED <<generatorVars, replVars, directName, directArgs>>

Next ==
  \/ CreateCompletion
  \/ ConsumeChunk
  \/ FinalizeToolCallsStep
  \/ FinishPlainTurn
  \/ GuardCheck
  \/ YieldToolCall
  \/ PushToolCallMessage
  \/ StartExecuteTool
  \/ ToolSettles
  \/ ToolTimeout
  \/ YieldToolResult
  \/ PushToolResultMessage
  \/ CreateFinalCompletion
  \/ ConsumeFinalChunk
  \/ FinalStreamEnd
  \/ TransportError

Spec == Init /\ [][Next]_vars

\* The invocation with the clock that stamps the message identifiers.
TimedSpec == InitTimed /\ [][Next]_vars

\* The invocation followed by what the REPL does at its next prompt.
ReplNext == Next \/ ReadInput

ReplSpec == Init /\ [][ReplNext]_vars

\* A default capability executed on its own.
ToolsSpec == InitDirect /\ [][ExecuteDirect]_vars

(***************************************************************************)
(* Properties                                                              *)
(***************************************************************************)
Last(seq) == seq[Len(seq)]

\* sub occurs in str.
Contains(str, sub) ==
  \E i \in 1..(Len(str) - Len(sub) + 1) : SubSeq(str, i, i + Len(sub) - 1) = sub

\* What the current turn has added to the logs.
TurnEvents == SubSeq(events, turnStart.events + 1, Len(events))
TurnHistory == SubSeq(workingHistory, turnStart.history + 1, Len(workingHistory))
TurnExecutions == SubSeq(executions, turnStart.executions + 1, Len(executions))

ToolMessage(text, id) == MessageParams("tool", text, Undefined, FALSE, <<>>, id, <<>>)

ToolCallsMessage(text, calls) ==
  MessageParams("assistant", text, "tool_calls", TRUE, calls, <<>>, <<>>)

\* The generator has returned or thrown: nothing of it changes any more.
DoneIsTerminal == pc = "Done" => UNCHANGED generatorVars

\* The stream of a turn ends (and not by a transport error).
StreamEnds == pc = "Streaming" /\ pc' # "Streaming" /\ thrown' # "transport"

\* C1: a turn whose stream ends with finish_reason stop appends exactly one
\* assistant message (the turn's text, finishReason stop) and nothing else,
\* executes no capability, yields no event beyond the turn's text events,
\* issues no further request, and the generator is done.
C1_StopTurn ==
  [][/\ (StreamEnds /\ finishReason = "stop") =>
          /\ workingHistory' = Append(workingHistory, AssistantMessage(content, "stop"))
          /\ Len(workingHistory') = turnStart.history + 1
          /\ \A j \in 1..Len(TurnEvents) : TurnEvents[j].type = "text"
          /\ ConcatContents(TurnEvents) = content
          /\ events' = events
          /\ executions' = executions
          /\ requests' = requests
          /\ pc' = "Done"
          /\ thrown' = "none"
     /\ DoneIsTerminal]_vars

C1_Witness ==
  /\ pc = "Done"
  /\ thrown = "none"
  /\ finishReason = "stop"
  /\ Len(requests) = 2
  /\ content = <<"Hi", "Bye">>
  /\ Last(workingHistory) = AssistantMessage(content, "stop")

SameCall(a, b) == a.name = b.name /\ a.args = b.args

\* Entries i-2, i-1 and i of the log are the same call.
ThreeInARow(log, i) ==
  /\ i >= 3
  /\ SameCall(log[i - 2], log[i])
  /\ SameCall(log[i - 1], log[i])

\* The name and serialized arguments of every tool call of the assistant
\* messages of a history, in order.
RECURSIVE SignaturesOf(_)
SignaturesOf(hist) ==
  IF hist = <<>> THEN <<>>
  ELSE [j \in 1..Len(Head(hist).toolCalls) |->
          [name |-> Head(hist).toolCalls[j].name,
           args |-> JSONstringify(Head(hist).toolCalls[j].arguments)]]
       \o SignaturesOf(Tail(hist))

\* C2: the loop is declared at entry i of the log exactly when entries i-2,
\* i-1 and i have the same name and the same serialized arguments; the log
\* holds the calls of all turns of the invocation (between turns it is the
\* list of all calls the invocation has attached to its history), and
\* nothing is logged once the loop is declared.
C2_GuardExact ==
  /\ \A i \in 1..Len(recentToolCalls) :
       ThreeInARow(recentToolCalls, i) <=> (loopDeclared /\ i = Len(recentToolCalls))
  /\ (pc = "Request" /\ requests # <<>>) =>
       recentToolCalls =
         SignaturesOf(SubSeq(workingHistory, Len(history) + 1, Len(workingHistory)))

C2_Witness ==
  /\ loopDeclared
  /\ turnStart.logged >= 2
  /\ Len(recentToolCalls) = 4
  /\ ~SameCall(recentToolCalls[1], recentToolCalls[2])

\* A structured error result: an object with an error string.
IsErrorObject(str) ==
  /\ JSONparse(str).ok
  /\ JSONparse(str).v.t = "obj"
  /\ Len(JSONparse(str).v.kv) >= 1
  /\ JSONparse(str).v.kv[1].k = <<"error">>
  /\ JSONparse(str).v.kv[1].v.t = "str"

ErrorText(str) == JSONparse(str).v.kv[1].v.s

CurrentCall == toolCalls[callIndex]

UnknownCall ==
  /\ pc \in {"Dispatch", "GotResult", "ResultYielded"}
  /\ CurrentCall.name \notin toolMap

\* The call's result is yielded as a tool_result event, then appended as a
\* tool message, and the dispatch loop goes on.
ResultIsDelivered ==
  /\ pc = "GotResult" =>
       /\ pc' = "ResultYielded"
       /\ events' = Append(events, Last(events'))
       /\ Last(events').type = "tool_result"
       /\ Last(events').message = ToolMessage(result, CurrentCall.id)
       /\ thrown' = "none"
  /\ pc = "ResultYielded" =>
       /\ workingHistory' = Append(workingHistory, Last(events).message)
       /\ callIndex' = callIndex + 1
       /\ pc' = IF callIndex < Len(toolCalls) THEN "Dispatch" ELSE "Request"
       /\ thrown' = "none"

\* C3: a call whose name is not in the registry gets a structured error
\* result that names it, without any execute call and without an exception;
\* the result becomes a tool message and a tool_result event, and the loop
\* goes on with the next call.
C3_UnknownTool ==
  [][UnknownCall =>
       /\ pc = "Dispatch" =>
            /\ pc' = "GotResult"
            /\ IsErrorObject(result')
            /\ ErrorText(result') = <<"Unknown tool: ">> \o CurrentCall.name
            /\ Contains(result', CurrentCall.name)
            /\ executions' = executions
            /\ running' = running
            /\ thrown' = "none"
       /\ ResultIsDelivered]_vars

C3_Witness ==
  /\ pc = "Dispatch"
  /\ callIndex = 2
  /\ toolCalls[1].name = Nope
  /\ Last(workingHistory) = ToolMessage(UnknownToolResult(Nope), toolCalls[1].id)
  /\ executions = <<>>

\* A structured error result of executeTool's catch block: {error, tool}.
IsToolError(str, name) ==
  /\ IsErrorObject(str)
  /\ Len(JSONparse(str).v.kv) = 2
  /\ JSONparse(str).v.kv[2] = Member(<<"tool">>, JStr(name))
  /\ Contains(str, name)

NeverSettles(name) == name \in toolMap /\ Outcomes(name) = {}

\* The event loop runs the timer of the race, and the caller keeps iterating
\* the generator (the REPL's for await loop does).
FairSpec ==
  /\ Spec
  /\ WF_vars(ToolTimeout)
  /\ WF_vars(YieldToolResult)
  /\ WF_vars(PushToolResultMessage)

Hanging == pc = "Executing" /\ NeverSettles(CurrentCall.name)

\* The latest execute call was given up on: its timeout result is the last
\* message of the history and of the last event, the capability is still
\* running, and the loop is at the next call or at the next request.
TimedOutAndMovedOn ==
  /\ executions # <<>>
  /\ events # <<>>
  /\ callIndex - 1 \in 1..Len(toolCalls)
  /\ Len(executions) \in running
  /\ Last(workingHistory).role = "tool"
  /\ Last(workingHistory).toolCallId = Last(executions).id
  /\ IsToolError(Last(workingHistory).content, Last(executions).name)
  /\ ErrorText(Last(workingHistory).content) = <<"Tool execution timeout">>
  /\ Last(events).type = "tool_result"
  /\ Last(events).message = Last(workingHistory)
  /\ toolCalls[callIndex - 1] = Last(executions)
  /\ pc = IF callIndex <= Len(toolCalls) THEN "Dispatch" ELSE "Request"

\* C4: a call to a capability that never settles is always followed by its
\* timeout error result (naming the tool) as a tool message and tool_result
\* event, with the loop at the next call of the turn or the next request,
\* while the capability is still running.
C4_TimeoutProceeds == Hanging ~> TimedOutAndMovedOn

C4_Witness ==
  /\ TimedOutAndMovedOn
  /\ pc = "Dispatch"
  /\ callIndex = 2
  /\ toolCalls[1].name = Hang

\* Every outcome of the capability is an exception or a rejection.
AlwaysThrows(name) ==
  /\ name \in toolMap
  /\ Outcomes(name) # {}
  /\ \A outcome \in Outcomes(name) : outcome.kind = "throw"

ThrowingCall ==
  /\ pc \in {"Executing", "GotResult", "ResultYielded"}
  /\ AlwaysThrows(CurrentCall.name)

RoundTrips(toolCall, entry) ==
  /\ entry.id = toolCall.id
  /\ entry.name = toolCall.name
  /\ JSONparse(entry.arguments).ok
  /\ JSONparse(entry.arguments).v = toolCall.arguments

\* C6: in every request, the message built from a recorded assistant message
\* with tool calls has one tool_calls entry per recorded call, in the same
\* order, with the same id and name and an arguments string that parses back
\* to the recorded argument mapping.
C6_RoundTrip ==
  \A k \in 1..Len(requests) :
    \A j \in 1..Len(workingHistory) :
      (/\ j + 1 <= Len(requests[k].messages)
       /\ workingHistory[j].role = "assistant"
       /\ workingHistory[j].toolCalls # <<>>) =>
        /\ requests[k].messages[j + 1].role = "assistant"
        /\ Len(requests[k].messages[j + 1].tool_calls) = Len(workingHistory[j].toolCalls)
        /\ \A n \in 1..Len(workingHistory[j].toolCalls) :
             RoundTrips(workingHistory[j].toolCalls[n],
                        requests[k].messages[j + 1].tool_calls[n])

\* A later request carries a turn's two calls, one with the placeholder for
\* arguments that did not parse and one whose text had blanks.
C6_Witness ==
  /\ pc = "Streaming"
  /\ Len(requests) = 2
  /\ Len(toolCalls) = 2
  /\ toolCalls[1].arguments = ParseErrorArgs(ArgsClose \o ArgsClose)
  /\ toolCalls[2].arguments = JObj(<<Member(<<"q">>, JNum(<<"1">>))>>)
  /\ Last(requests).messages[Len(history) + 2].tool_calls[2].arguments = ArgsQ1

\* The calls among the first n of the turn that reach a capability.
RECURSIVE RegisteredCalls(_, _)
RegisteredCalls(calls, n) ==
  IF n = 0 THEN <<>>
  ELSE RegisteredCalls(calls, n - 1)
       \o (IF calls[n].name \in toolMap THEN <<calls[n]>> ELSE <<>>)

\* The turn's events are its text events, one tool_call event and the
\* tool_result events of its first `yielded` calls; its history is the
\* assistant message (once `attached`) and the tool messages of its first
\* `pushed` calls; the execute calls so far are those of its first `started`
\* calls.
TurnShape(yielded, attached, pushed, started) ==
  LET texts == Len(TurnEvents) - 1 - yielded
  IN /\ texts >= 0
     /\ \A j \in 1..texts : TurnEvents[j].type = "text"
     /\ ConcatContents(SubSeq(TurnEvents, 1, texts)) = content
     /\ TurnEvents[texts + 1].type = "tool_call"
     /\ TurnEvents[texts + 1].message = ToolCallsMessage(content, toolCalls)
     /\ \A j \in 1..yielded :
          /\ TurnEvents[texts + 1 + j].type = "tool_result"
          /\ TurnEvents[texts + 1 + j].message.role = "tool"
          /\ TurnEvents[texts + 1 + j].message.toolCallId = toolCalls[j].id
     /\ Len(TurnHistory) = (IF attached THEN 1 ELSE 0) + pushed
     /\ attached => TurnHistory[1] = ToolCallsMessage(content, toolCalls)
     /\ \A j \in 1..pushed : TurnHistory[1 + j] = TurnEvents[texts + 1 + j].message
     /\ TurnExecutions = RegisteredCalls(toolCalls, started)

\* C7: in a tool_calls turn without a declared loop, the events are the
\* turn's text events, one tool_call event, then one tool_result event per
\* call in order; a call's execute starts only when the previous call's tool
\* message is in the history; and when the next request is issued the
\* history ends with the turn's assistant message and all its tool messages
\* in call order.
C7_DispatchOrder ==
  /\ pc = "ToolCallYielded" => TurnShape(0, FALSE, 0, 0)
  /\ pc = "Dispatch" => TurnShape(callIndex - 1, TRUE, callIndex - 1, callIndex - 1)
  /\ pc \in {"Executing", "GotResult"} =>
       TurnShape(callIndex - 1, TRUE, callIndex - 1, callIndex)
  /\ pc = "ResultYielded" => TurnShape(callIndex, TRUE, callIndex - 1, callIndex)
  /\ (pc = "Request" /\ finishReason = "tool_calls") =>
       TurnShape(Len(toolCalls), TRUE, Len(toolCalls), Len(toolCalls))
  /\ pc = "Streaming" => Last(requests).messages = buildMessages(workingHistory)

\* Once the loop is declared: the turn has executed nothing and attached
\* nothing, and every event after the announcement is a text event.
AfterLoopDeclared ==
  /\ pc \in {"LoopAbort", "FinalStreaming", "Done"}
  /\ TurnExecutions = <<>>
  /\ TurnHistory = <<>>
  /\ \E n \in 1..Len(TurnEvents) :
       /\ TurnEvents[n] = TextEvent(LoopNotice)
       /\ \A m \in 1..Len(TurnEvents) :
            (m > n \/ TurnEvents[m].type # "text") =>
              /\ m > n
              /\ TurnEvents[m].type = "text"
              /\ TurnEvents[m].message = NoMessage

\* C8: once the loop is declared no execute call is ever made again, neither
\* for the call that triggered it nor for the rest of its turn nor for
\* anything the final completion asks for; only text events follow the
\* announcement; and the generator is done when the final stream ends.
C8_NoToolAfterLoop ==
  [][/\ loopDeclared' => AfterLoopDeclared'
     /\ loopDeclared =>
          /\ loopDeclared'
          /\ executions' = executions
          /\ running' = running
          /\ workingHistory' = workingHistory
     /\ pc = "FinalStreaming" => pc' \in {"FinalStreaming", "Done"}
     /\ DoneIsTerminal]_vars

C8_Witness ==
  /\ loopDeclared
  /\ pc = "Done"
  /\ thrown = "none"
  /\ chunksLeft = 0
  /\ Last(events) = TextEvent(<<"Hi">>)
  /\ Len(toolCalls) = 2
  /\ callIndex = 1

\* Since the current turn was requested:
GuardHasChecked == Len(recentToolCalls) > turnStart.logged
HasExecuted == Len(executions) > turnStart.executions
MessageAttached ==
  /\ TurnHistory # <<>>
  /\ TurnHistory[1] = ToolCallsMessage(content, toolCalls)
ToolCallEvents == {j \in 1..Len(TurnEvents) : TurnEvents[j].type = "tool_call"}

\* C9 as stated: the assistant message is attached and the tool_call event
\* yielded before any call of the turn is checked by the guard or executed.
C9_MessageBeforeGuard ==
  (GuardHasChecked \/ HasExecuted) =>
    (MessageAttached /\ Cardinality(ToolCallEvents) = 1)

\* C9, amended: the guard checks the calls of a tool_calls turn first.  The
\* assistant message is attached and the one tool_call event yielded only
\* after every call of the turn was checked without a loop being declared,
\* and before any call of the turn is executed; a turn in which the loop is
\* declared attaches no message and yields no tool_call event.
C9_MessageAfterGuard ==
  /\ (pc \in {"Dispatch", "Executing", "GotResult", "ResultYielded"} \/ HasExecuted) =>
       /\ MessageAttached
       /\ Cardinality(ToolCallEvents) = 1
  /\ (finishReason = "tool_calls" /\ (TurnHistory # <<>> \/ ToolCallEvents # {})) =>
       /\ ~loopDeclared
       /\ Cardinality(ToolCallEvents) = 1
       /\ Len(recentToolCalls) = turnStart.logged + Len(toolCalls)
       /\ \A j \in 1..Len(toolCalls) :
            recentToolCalls[turnStart.logged + j] = CallSignature(toolCalls[j])
  /\ loopDeclared => (TurnHistory = <<>> /\ ToolCallEvents = {})

C9_Witness ==
  /\ pc = "Executing"
  /\ callIndex = 1
  /\ Len(toolCalls) = 2
  /\ MessageAttached
  /\ Len(recentToolCalls) = turnStart.logged + 2

\* C10: when the stream ends with a finish_reason other than stop,
\* tool_calls and length, or with none, the generator is done: no further
\* request, no execute call, no further event.
C10_OtherFinish ==
  [][/\ (StreamEnds /\ finishReason \notin {"stop", "tool_calls", "length"}) =>
          /\ pc' = "Done"
          /\ requests' = requests
          /\ executions' = executions
          /\ running' = running
          /\ events' = events
     /\ DoneIsTerminal]_vars

C10_Witness ==
  /\ pc = "Done"
  /\ finishReason = "content_filter"
  /\ thrown # "transport"
  /\ Len(requests) = 2
  /\ events # <<>>

\* C11: a turn whose stream ends with finish_reason length appends exactly
\* one assistant message holding the partial text (finishReason length),
\* executes nothing, yields nothing beyond its text events, and the next
\* request is issued with the history extended by that one message.
C11_LengthTurn ==
  [][/\ (StreamEnds /\ finishReason = "length") =>
          /\ workingHistory' = Append(workingHistory, AssistantMessage(content, "length"))
          /\ Len(workingHistory') = turnStart.history + 1
          /\ \A j \in 1..Len(TurnEvents) : TurnEvents[j].type = "text"
          /\ events' = events
          /\ executions' = executions
          /\ running' = running
          /\ requests' = requests
          /\ pc' = "Request"
          /\ thrown' = "none"
     /\ (pc = "Request" /\ finishReason = "length" /\ pc' = "Streaming") =>
          /\ requests' = Append(requests, Request(buildMessages(workingHistory),
                                                  getOpenAITools))
          /\ Len(workingHistory) = turnStart.history + 1
          /\ Last(workingHistory) = AssistantMessage(content, "length")
          /\ Len(events) = turnStart.events + Len(TurnEvents)
          /\ \A j \in 1..Len(TurnEvents) : TurnEvents[j].type = "text"
          /\ Len(executions) = turnStart.executions]_vars

C11_Witness ==
  /\ pc = "Streaming"
  /\ Len(requests) = 2
  /\ Len(workingHistory) = Len(history) + 1
  /\ Last(workingHistory) = AssistantMessage(<<"Hi">>, "length")
  /\ Last(Last(requests).messages).content = <<"Hi">>
  /\ executions = <<>>

\* The position indices seen in the turn's fragments.
IndicesSeen == {fragments[j].index : j \in 1..Len(fragments)}

\* The argument fragments tagged with one index, concatenated as they arrived.
RECURSIVE ArgsOf(_, _)
ArgsOf(frags, index) ==
  IF frags = <<>> THEN <<>>
  ELSE (IF Head(frags).index = index THEN Head(frags).arguments ELSE <<>>)
       \o ArgsOf(Tail(frags), index)

\* A mapping with exactly one field, _parseError, holding the raw string.
IsPlaceholder(arguments, raw) ==
  /\ arguments.t = "obj"
  /\ Len(arguments.kv) = 1
  /\ arguments.kv[1].k = <<"_parseError">>
  /\ arguments.kv[1].v = JStr(raw)

\* The step that drains the buffers of a tool_calls turn.
Finalizes == pc = "Streaming" /\ pc' = "Guard"

\* C12: when a turn ends with tool_calls there is one finalized call per
\* position index seen in its fragments; a call whose concatenated arguments
\* do not parse is kept, with the one-field placeholder holding the raw
\* string; and dispatch hands every call whose name is registered to its
\* capability, with the arguments it was finalized with.
C12_OneCallPerIndex ==
  [][/\ Finalizes =>
          /\ Len(toolCalls') = Cardinality(IndicesSeen)
          /\ {toolCallBuffers[j].index : j \in 1..Len(toolCallBuffers)} = IndicesSeen
          /\ \A j \in 1..Len(toolCalls') :
               LET raw == ArgsOf(fragments, toolCallBuffers[j].index)
               IN IF JSONparse(raw).ok
                  THEN toolCalls'[j].arguments = JSONparse(raw).v
                  ELSE IsPlaceholder(toolCalls'[j].arguments, raw)
     /\ toolCalls' # toolCalls => Finalizes
     /\ (pc = "Dispatch" /\ pc' # pc /\ toolCalls[callIndex].name \in toolMap) =>
          /\ pc' = "Executing"
          /\ executions' = Append(executions, toolCalls[callIndex])]_vars

C12_Witness ==
  /\ pc = "Executing"
  /\ Len(toolCalls) = 1
  /\ IsPlaceholder(toolCalls[1].arguments, ArgsOpen)
  /\ Last(executions) = toolCalls[1]
  /\ Last(executions).name = Find

\* seq starts with prefix.
IsPrefix(prefix, seq) ==
  Len(prefix) <= Len(seq) /\ SubSeq(seq, 1, Len(prefix)) = prefix

\* C13: a failure of completions.create or of the stream is not caught by
\* streamResponse: the generator ends with it, with no further event,
\* request or execute call; the REPL then appends exactly one message
\* carrying the error text to the messages it already has, and returns to
\* prompting.
C13_TransportError ==
  [][/\ thrown' = "transport" => pc' = "Done"
     /\ (thrown = "none" /\ thrown' = "transport") =>
          /\ events' = events
          /\ requests' = requests
          /\ executions' = executions
          /\ workingHistory' = workingHistory
          /\ replHistory' = Append(replHistory, Last(replHistory'))
          /\ Last(replHistory').error = <<"transport">>
          /\ Last(replHistory').role = "assistant"
          /\ repl = "iterating" /\ repl' = "prompting"
     /\ pc # "Done" => IsPrefix(replHistory, replHistory')
     /\ DoneIsTerminal]_vars

C13_Witness ==
  /\ pc = "Done"
  /\ thrown = "transport"
  /\ repl = "prompting"
  /\ Len(requests) = 2
  /\ Len(executions) = 1
  /\ Len(replHistory) = Len(history) + 3
  /\ Last(replHistory) = ErrorMessage(<<"transport">>)
  /\ replHistory[Len(history) + 2].role = "tool"

SystemMessage == ApiMessage("system", SystemPrompt, FALSE, <<>>, <<>>)

SystemCount(hist) == Cardinality({j \in 1..Len(hist) : hist[j].role = "system"})

\* C14: every request, the final one of a loop abort included, starts with
\* the system prompt, followed by the working history in order; the system
\* prompt is never pushed to the working history nor carried by an event.
C14_SystemFirst ==
  [][/\ requests' # requests =>
          LET messages == Last(requests').messages
          IN /\ requests' = Append(requests, Last(requests'))
             /\ messages[1] = SystemMessage
             /\ Len(messages) = 1 + Len(workingHistory)
                                + (IF pc = "LoopAbort" THEN 1 ELSE 0)
             /\ \A j \in 1..Len(workingHistory) :
                  /\ messages[1 + j].role = workingHistory[j].role
                  /\ messages[1 + j].content = workingHistory[j].content
                  /\ messages[1 + j] = HistoryMessage(workingHistory[j])
             /\ workingHistory' = workingHistory
     /\ SystemCount(workingHistory') = SystemCount(workingHistory)
     /\ \A j \in 1..Len(workingHistory') : workingHistory'[j].content # SystemPrompt
     /\ \A j \in 1..Len(events') :
          /\ events'[j].message.role # "system"
          /\ events'[j].message.content # SystemPrompt]_vars

C14_Witness ==
  /\ pc = "FinalStreaming"
  /\ Len(requests) = 3
  /\ Len(workingHistory) = Len(history) + 3
  /\ \A j \in 1..3 : requests[j].messages[1] = SystemMessage
  /\ Len(requests[3].messages) = Len(workingHistory) + 2

\* The tool_result events of the current turn.
ToolResultEvents ==
  {j \in 1..Len(TurnEvents) : TurnEvents[j].type = "tool_result"}

\* C15 as stated: when the loop is declared at the k-th call of a turn, the
\* k-1 calls before it have been executed, each with its tool message and
\* its tool_result event.
C15_PrecedingExecuted ==
  (loopDeclared /\ callIndex > 1) =>
    /\ Len(TurnHistory) >= callIndex - 1
    /\ Cardinality(ToolResultEvents) = callIndex - 1
    /\ TurnExecutions = RegisteredCalls(toolCalls, callIndex - 1)

\* C15, amended: when the loop is declared at the k-th call of a turn, the
\* guard has logged the turn's first k calls and no call of the turn has been
\* executed or ever is: not the k-1 calls before the repeating one, not that
\* one, not those after it.  The turn gets no tool message and no
\* tool_result event.
C15_NoneExecuted ==
  loopDeclared =>
    /\ callIndex \in 1..Len(toolCalls)
    /\ Len(recentToolCalls) = turnStart.logged + callIndex
    /\ \A j \in 1..callIndex :
         recentToolCalls[turnStart.logged + j] = CallSignature(toolCalls[j])
    /\ Len(executions) = turnStart.executions
    /\ Len(workingHistory) = turnStart.history
    /\ ToolResultEvents = {}

C15_Witness ==
  /\ loopDeclared
  /\ pc = "Done"
  /\ callIndex = 2
  /\ Len(toolCalls) = 2
  /\ toolCalls[1].name \in toolMap
  /\ Len(executions) = 1
  /\ thrown = "none"

\* The non-empty ids, and the non-empty names, received for one index, in
\* arrival order.
IdsOf(frags, index) ==
  LET sel == SelectSeq(frags, LAMBDA f : f.index = index /\ f.id # <<>>)
  IN [j \in 1..Len(sel) |-> sel[j].id]

NamesOf(frags, index) ==
  LET sel == SelectSeq(frags, LAMBDA f : f.index = index /\ f.name # <<>>)
  IN [j \in 1..Len(sel) |-> sel[j].name]

FirstOr(seq, default) == IF seq = <<>> THEN default ELSE Head(seq)
LastOr(seq, default) == IF seq = <<>> THEN default ELSE seq[Len(seq)]

\* toolCalls holds the calls finalized from the fragments of this turn.
CallsAreCurrent ==
  pc \in {"Guard", "ToolCallYielded", "Dispatch", "Executing", "GotResult",
          "ResultYielded", "LoopAbort", "FinalStreaming"}

\* C16 as stated: a finalized call has the first non-empty id and the first
\* non-empty name received for its index.
C16_FirstWins ==
  CallsAreCurrent =>
    \A j \in 1..Len(toolCalls) :
      /\ toolCalls[j].id = FirstOr(IdsOf(fragments, toolCallBuffers[j].index), <<>>)
      /\ toolCalls[j].name = FirstOr(NamesOf(fragments, toolCallBuffers[j].index), <<>>)

\* C16, amended: a finalized call has the last non-empty id and the last
\* non-empty name received for its index (the empty string if there was
\* none): a later non-empty fragment replaces the earlier value, an empty
\* one leaves it.
C16_LastWins ==
  CallsAreCurrent =>
    /\ Len(toolCalls) = Len(toolCallBuffers)
    /\ \A j \in 1..Len(toolCalls) :
         /\ toolCalls[j].id = LastOr(IdsOf(fragments, toolCallBuffers[j].index), <<>>)
         /\ toolCalls[j].name = LastOr(NamesOf(fragments, toolCallBuffers[j].index), <<>>)

C16_Witness ==
  /\ CallsAreCurrent
  /\ \E j \in 1..Len(toolCalls) :
       /\ IdsOf(fragments, toolCallBuffers[j].index) = <<CallId(1), <<"call_c">>>>
       /\ NamesOf(fragments, toolCallBuffers[j].index) = <<Nope, Find>>
       /\ toolCalls[j].id = <<"call_c">>
       /\ toolCalls[j].name = Find

\* Each buffer holds the raw concatenation of its own index's fragments,
\* and there is one buffer per index seen.
BuffersMatchFragments ==
  /\ {toolCallBuffers[j].index : j \in 1..Len(toolCallBuffers)} = IndicesSeen
  /\ Len(toolCallBuffers) = Cardinality(IndicesSeen)
  /\ \A j \in 1..Len(toolCallBuffers) :
       toolCallBuffers[j].args = ArgsOf(fragments, toolCallBuffers[j].index)

\* C17: the argument string of a buffer is the concatenation, in arrival
\* order, of exactly the fragments tagged with its index, however fragments
\* of different indices are interleaved or grouped; and the arguments are
\* parsed once, when the stream has ended.
C17_ArgsPerIndex ==
  [][/\ BuffersMatchFragments'
     /\ toolCalls' # toolCalls =>
          /\ Finalizes
          /\ finishReason = "tool_calls"
          /\ toolCallBuffers' = toolCallBuffers
          /\ \A j \in 1..Len(toolCalls') :
               toolCalls'[j].arguments =
                 ParsedArgs(ArgsOf(fragments, toolCallBuffers[j].index))]_vars

C17_Witness ==
  /\ CallsAreCurrent
  /\ Len(fragments) = 3
  /\ fragments[1].index = 0 /\ fragments[2].index = 1 /\ fragments[3].index = 0
  /\ Len(toolCalls) = 2
  /\ toolCallBuffers[1].args = ArgsOpen \o ArgsClose
  /\ toolCallBuffers[2].args = ArgsQ1Spaced
  /\ toolCalls[1].arguments = JSONparse(ArgsQ1).v
  /\ toolCalls[2].arguments = JSONparse(ArgsQ1).v

\* C18: the finalized calls of a turn are in ascending order of their
\* position index, whatever order the fragments arrived in.
C18_AscendingIndexOrder ==
  CallsAreCurrent =>
    /\ toolCalls = FinalizeToolCalls(toolCallBuffers)
    /\ \A j, k \in 1..Len(toolCallBuffers) :
         j < k => toolCallBuffers[j].index < toolCallBuffers[k].index

\* C19: whatever the concatenated argument string of a call is, the
\* finalized call carries a mapping, the assistant message of the turn is
\* created and pushed, and the generator does not end with an error.
C19_ArgumentsNeverCrash ==
  /\ CallsAreCurrent => \A j \in 1..Len(toolCalls) : toolCalls[j].arguments.t = "obj"
  /\ (pc = "Done" /\ finishReason = "tool_calls") => thrown # "ZodError"
  /\ pc = "Dispatch" => MessageAttached

\* C7, in full: every turn that ended with tool_calls and in which no loop
\* was declared has the shape C7_DispatchOrder describes, and in particular
\* has its one tool_call event as soon as the guard has passed its calls.
C7_ToolTurnOrder ==
  /\ C7_DispatchOrder
  /\ (/\ finishReason = "tool_calls"
      /\ ~loopDeclared
      /\ pc \notin {"Streaming", "Guard"}
      /\ thrown # "transport") => Cardinality(ToolCallEvents) = 1

\* Two argument mappings have the same keys with the same values.
SameMapping(a, b) ==
  /\ a.t = "obj" /\ b.t = "obj"
  /\ {<<a.kv[j].k, a.kv[j].v>> : j \in 1..Len(a.kv)}
       = {<<b.kv[j].k, b.kv[j].v>> : j \in 1..Len(b.kv)}

\* The logged calls a and b have the same name and equal argument mappings.
EquivalentCall(a, b) ==
  /\ a.name = b.name
  /\ SameMapping(JSONparse(a.args).v, JSONparse(b.args).v)

\* C20: three consecutive logged calls with the same name and argument
\* mappings holding the same keys and values, in whatever key order, make
\* the guard declare the loop at the third.
C20_KeyOrderIgnored ==
  \A i \in 3..Len(recentToolCalls) :
    (/\ EquivalentCall(recentToolCalls[i - 2], recentToolCalls[i])
     /\ EquivalentCall(recentToolCalls[i - 1], recentToolCalls[i]))
    => (loopDeclared /\ i = Len(recentToolCalls))

\* C21: at most one execute call started by the invocation is still
\* running, also after an earlier call was given up on by the timeout.
C21_AtMostOneRunning == Cardinality(running) <= 1

\* The positions of the working history the invocation has pushed.
Pushed == (Len(history) + 1)..Len(workingHistory)

\* An assistant message before position j requests a call with this id.
RequestedBefore(hist, j, id) ==
  \E k \in 1..(j - 1) :
    /\ hist[k].role = "assistant"
    /\ \E c \in 1..Len(hist[k].toolCalls) : hist[k].toolCalls[c].id = id

\* C22: every tool message the invocation pushed carries a non-empty
\* toolCallId that is the id of a call of an earlier assistant message, and
\* every assistant message it pushed carries calls only with finishReason
\* tool_calls.
C22_ToolMessagesLinked ==
  \A j \in Pushed :
    /\ workingHistory[j].role = "tool" =>
         /\ workingHistory[j].toolCallId # <<>>
         /\ RequestedBefore(workingHistory, j, workingHistory[j].toolCallId)
    /\ (workingHistory[j].role = "assistant" /\ workingHistory[j].toolCalls # <<>>) =>
         workingHistory[j].finishReason = "tool_calls"

\* In a request's message list, the assistant message at position j has its
\* calls answered right after it: one tool message per call, in call order,
\* each with the call's id, and no further tool message after them.
AnsweredInOrder(messages, j, linked) ==
  LET calls == messages[j].tool_calls
  IN /\ j + Len(calls) <= Len(messages)
     /\ \A c \in 1..Len(calls) :
          /\ messages[j + c].role = "tool"
          /\ messages[j + c].tool_call_id = calls[c].id
          /\ linked => messages[j + c].tool_call_id # <<>>
     /\ j + Len(calls) < Len(messages) => messages[j + Len(calls) + 1].role # "tool"

\* The tool message at position m answers a call of an assistant message.
AnswersACall(messages, m) ==
  \E j \in 1..(m - 1) :
    /\ messages[j].role = "assistant"
    /\ m - j <= Len(messages[j].tool_calls)

\* Every request's message list pairs calls and results; position 1 is the
\* system message, so position j + 1 holds element j of the history.
CallsPaired(linked) ==
  \A r \in 1..Len(requests) :
    LET messages == requests[r].messages
    IN \A m \in (Len(history) + 2)..Len(messages) :
         /\ (messages[m].role = "assistant" /\ messages[m].tool_calls # <<>>) =>
              AnsweredInOrder(messages, m, linked)
         /\ messages[m].role = "tool" => AnswersACall(messages, m)

\* C23: in every request the service sees each requested call followed by
\* its result, with the matching tool_call_id, in call order, and no result
\* without its call.
C23_CallsAnswered == CallsPaired(TRUE)

\* The generator is suspended at the yield of a tool_call or tool_result
\* event.
AtMessageYield == pc \in {"ToolCallYielded", "ResultYielded"}

\* C24 as stated: when a tool_call or tool_result event is yielded, its
\* message is already the last element of the working history.
C24_PushedBeforeYield ==
  AtMessageYield =>
    /\ Len(workingHistory) > turnStart.history
    /\ Last(workingHistory) = Last(events).message

\* C24, amended: when a tool_call or tool_result event is yielded, its
\* message is not yet in the working history, which holds exactly the
\* messages of the turn's earlier events; the message is pushed as the first
\* thing the generator does when it is resumed, so a caller that stops
\* consuming at the event leaves the working history without it.
C24_PushedOnResume ==
  [][/\ AtMessageYield' =>
          LET carried == EventMessages(TurnEvents')
          IN /\ Last(events').type \in {"tool_call", "tool_result"}
             /\ Len(carried) = Len(TurnHistory') + 1
             /\ SubSeq(carried, 1, Len(carried) - 1) = TurnHistory'
             /\ Last(carried) = Last(events').message
     /\ AtMessageYield =>
          /\ workingHistory' = Append(workingHistory, Last(events).message)
          /\ events' = events]_vars

C24_Witness ==
  /\ pc = "ResultYielded"
  /\ callIndex = 2
  /\ Len(TurnHistory) = 2
  /\ Len(EventMessages(TurnEvents)) = 3
  /\ Last(events).message = toolResultMessage
  /\ Last(workingHistory) # toolResultMessage

\* The tool messages of a history.
ToolMessagesOf(hist) == SelectSeq(hist, LAMBDA msg : msg.role = "tool")

\* The messages of the tool_result events yielded so far.
ToolResultsYielded ==
  LET sel == SelectSeq(events, LAMBDA e : e.type = "tool_result")
  IN [j \in 1..Len(sel) |-> sel[j].message]

\* C25: on loop abort exactly one more request is issued, without tools,
\* whose messages are the system prompt, the whole working history (with
\* every tool result of the invocation) and the nudge; neither the nudge nor
\* the final text goes to the working history or into an event's message.
C25_FinalRequest ==
  [][/\ (pc = "LoopAbort" /\ pc' = "FinalStreaming") =>
          /\ requests' = Append(requests, Last(requests'))
          /\ Last(requests').tools = {}
          /\ Last(requests').messages =
               <<SystemMessage>>
               \o [j \in 1..Len(workingHistory) |-> HistoryMessage(workingHistory[j])]
               \o <<LoopNudge>>
          /\ ToolMessagesOf(SubSeq(workingHistory, Len(history) + 1,
                                   Len(workingHistory))) = ToolResultsYielded
     /\ (loopDeclared /\ pc # "LoopAbort") => requests' = requests
     /\ pc = "LoopAbort" => pc' \in {"LoopAbort", "FinalStreaming", "Done"}
     /\ loopDeclared' =>
          /\ Len(workingHistory') = turnStart'.history
          /\ \A j \in 1..Len(workingHistory') :
               workingHistory'[j].content # LoopNudge.content
     /\ (loopDeclared /\ events' # events) =>
          /\ events' = Append(events, Last(events'))
          /\ Last(events').type = "text"
          /\ Last(events').message = NoMessage]_vars

C25_Witness ==
  /\ pc = "Done"
  /\ loopDeclared
  /\ thrown = "none"
  /\ Last(requests).tools = {}
  /\ Last(Last(requests).messages) = LoopNudge
  /\ Len(ToolResultsYielded) = 2
  /\ Len(Last(requests).messages) = Len(workingHistory) + 2
  /\ Last(events).type = "text"
  /\ Last(events).content # LoopNotice

\* The non-empty text fragments the service has sent since the request.
NonEmptyTexts == SelectSeq(streamed, LAMBDA t : t # <<>>)

RECURSIVE Concat(_)
Concat(seqs) == IF seqs = <<>> THEN <<>> ELSE Head(seqs) \o Concat(Tail(seqs))

\* The text events of the turn that echo the stream (the loop notice is the
\* generator's own text).
EchoedTexts ==
  LET sel == SelectSeq(TurnEvents,
                       LAMBDA e : e.type = "text" /\ e # TextEvent(LoopNotice))
  IN [j \in 1..Len(sel) |-> sel[j].content]

\* C26: after every chunk, the text events of the turn are the non-empty
\* text fragments received so far, one event each, in arrival order; and the
\* assistant message pushed for the turn has their concatenation as content.
C26_TextEchoed ==
  /\ EchoedTexts = NonEmptyTexts
  /\ \A j \in 1..Len(TurnEvents) :
       TurnEvents[j].type = "text" =>
         (TurnEvents[j].content # <<>> /\ TurnEvents[j].message = NoMessage)
  /\ ~loopDeclared => content = Concat(streamed)
  /\ TurnHistory # <<>> =>
       /\ TurnHistory[1].role = "assistant"
       /\ TurnHistory[1].finishReason \in {"stop", "length", "tool_calls"}
       /\ TurnHistory[1].content = Concat(NonEmptyTexts)
       /\ \A j \in 2..Len(TurnHistory) : TurnHistory[j].role = "tool"

C26_Witness ==
  /\ streamed = << <<"Hi">>, <<>>, <<"Bye">> >>
  /\ EchoedTexts = << <<"Hi">>, <<"Bye">> >>
  /\ TurnHistory # <<>>
  /\ TurnHistory[1].content = <<"Hi", "Bye">>

\* What the generator has appended to its working history, and what the
\* caller has appended to the list it passed in.
GeneratorPushes == SubSeq(workingHistory, Len(history) + 1, Len(workingHistory))

CallerPushes == SubSeq(replHistory, Len(history) + 1, Len(replHistory))

\* The messages the generator hands out in events (the others it keeps).
CarriedByEvent(msg) == msg.role = "tool" \/ msg.hasToolCalls

\* C27: during the invocation the caller's list keeps the caller's elements
\* and grows only by what the caller itself appends (the messages of the events, then its closing
\* message); the tool list is the same in every request that has tools; and
\* every request is built from the initial history followed by the
\* generator's own messages, each once, whatever the caller has appended.
C27_HistoriesSeparate ==
  [][/\ history' = history
     /\ IsPrefix(history, workingHistory')
     /\ repl = "iterating" =>
          /\ IsPrefix(history, replHistory')
          /\ IsPrefix(replHistory, replHistory')
          /\ IF repl' = "iterating"
             THEN CallerPushes' = EventMessages(events')
             ELSE /\ IsPrefix(EventMessages(events'), CallerPushes')
                  /\ Len(CallerPushes') <= Len(EventMessages(events')) + 1
     /\ LET kept == SelectSeq(GeneratorPushes', CarriedByEvent)
            seen == EventMessages(events')
        IN IF AtMessageYield'
           THEN seen = Append(kept, Last(seen))
           ELSE seen = kept
     /\ \A j \in 1..Len(requests') : requests'[j].tools \in {getOpenAITools, {}}
     /\ requests' # requests =>
          /\ requests' = Append(requests, Last(requests'))
          /\ Last(requests').messages =
               <<SystemMessage>>
               \o [j \in 1..Len(history) |-> HistoryMessage(history[j])]
               \o [j \in 1..Len(GeneratorPushes) |-> HistoryMessage(GeneratorPushes[j])]
               \o (IF pc = "LoopAbort" THEN <<LoopNudge>> ELSE <<>>)]_vars

\* The caller has appended two messages of events while the generator's
\* copy holds a message the caller never saw, and a request is then issued.
C27_Witness ==
  /\ Len(requests) = 3
  /\ Len(CallerPushes) = 2
  /\ Len(GeneratorPushes) = 3
  /\ GeneratorPushes # CallerPushes
  /\ \E j \in 1..3 : ~CarriedByEvent(GeneratorPushes[j])

\* The identifiers of the messages the generator has appended to the working
\* history, in order.
PushedIds == [j \in 1..Len(GeneratorPushes) |-> MessageId(stamps[j])]

\* C28: the messages the generator has put in the working history have
\* pairwise distinct identifiers.
C28_IdsDistinct ==
  \A i, j \in 1..Len(PushedIds) : i # j => PushedIds[i] # PushedIds[j]

\* C29: the REPL is iterating the event sequence exactly while the
\* generator has not ended; it reads input, clears the list, or starts on
\* the next question only when it is prompting, which is after the sequence
\* has ended; from then on the ended generator does nothing, so every change
\* of the shared list is made by one interaction alone.
C29_SingleConsumer ==
  [][/\ (repl' = "iterating") <=> (pc' # "Done")
     /\ repl' # repl =>
          \/ repl = "iterating" /\ repl' = "prompting" /\ pc # "Done" /\ pc' = "Done"
          \/ repl = "prompting" /\ repl' \in {"next", "closed"} /\ pc = "Done"
     /\ repl # "iterating" => UNCHANGED generatorVars
     /\ replHistory' # replHistory =>
          \/ repl = "iterating" /\ pc # "Done"
          \/ repl = "prompting" /\ pc = "Done" /\ UNCHANGED generatorVars]_vars

\* The REPL has stored the messages of a tool turn and its closing message,
\* and has then taken the next question.
C29_Witness ==
  /\ repl = "next"
  /\ pc = "Done"
  /\ Len(replHistory) = Len(history) + 4
  /\ replHistory[Len(history) + 2].role = "tool"
  /\ replHistory[Len(history) + 3].role = "assistant"
  /\ Last(replHistory) = UserMessage(<<"And section 5?">>)

\* C30: when the service does not fail, the generator ends without an error.
C30_CompletesNormally ==
  (pc = "Done" /\ thrown # "transport") => thrown = "none"

\* C31: the number of completion requests of one invocation is bounded: the
\* generator never stands at the head of its while loop, about to issue
\* another request, with MaxRequests requests already issued.
C31_RequestsBounded ==
  pc = "Request" => Len(requests) < MaxRequests

\* The fields of the messages of a list that the two histories are compared by.
CoreOf(hist) ==
  [j \in 1..Len(hist) |->
     [role |-> hist[j].role, content |-> hist[j].content,
      toolCalls |-> hist[j].toolCalls, toolCallId |-> hist[j].toolCallId]]

\* C32: when the invocation has ended without error and without loop abort,
\* the messages the REPL has appended to its list are, in order, equal in
\* role, content, tool calls and toolCallId to those the generator appended
\* to its working history.
C32_HistoriesAgree ==
  (pc = "Done" /\ thrown = "none" /\ ~loopDeclared) =>
    CoreOf(CallerPushes) = CoreOf(GeneratorPushes)

\* The stream of the turn ended with finish_reason tool_calls and carried no
\* tool-call fragment.
EmptyToolTurn == finishReason = "tool_calls" /\ fragments = <<>>

ServiceFails == pc' = "Done" /\ thrown' = "transport"

\* C33: a tool_calls turn without fragments yields one tool_call event that
\* carries an assistant message with an empty call list, appends that
\* message and nothing else, executes nothing, logs nothing for the loop
\* guard, and goes on with another request that offers the tools; the loop
\* is never declared while the guard's log is empty.
C33_EmptyToolTurn ==
  [][/\ EmptyToolTurn =>
          /\ executions' = executions
          /\ recentToolCalls' = recentToolCalls
          /\ loopDeclared' = loopDeclared
          /\ pc = "Streaming" =>
               \/ ServiceFails
               \/ pc' = "Guard" /\ toolCalls' = <<>> /\ events' = events
                  /\ workingHistory' = workingHistory
          /\ pc = "Guard" =>
               /\ pc' = "ToolCallYielded"
               /\ thrown' = "none"
               /\ events' = Append(events,
                                   ToolCallEvent(<<>>, ToolCallsMessage(content, <<>>)))
               /\ workingHistory' = workingHistory
          /\ pc = "ToolCallYielded" =>
               /\ pc' = "Request"
               /\ thrown' = "none"
               /\ events' = events
               /\ workingHistory' =
                    Append(workingHistory, ToolCallsMessage(content, <<>>))
               /\ Len(workingHistory') = turnStart.history + 1
          /\ pc = "Request" =>
               \/ ServiceFails
               \/ /\ pc' = "Streaming"
                  /\ thrown' = "none"
                  /\ requests' = Append(requests, Last(requests'))
                  /\ Last(requests').tools = getOpenAITools
                  /\ Last(requests').messages = buildMessages(workingHistory)
                  /\ TurnHistory = <<ToolCallsMessage(content, <<>>)>>
                  /\ \A j \in 1..Len(TurnEvents) :
                       TurnEvents[j].type = "tool_result" => FALSE
     /\ loopDeclared' => recentToolCalls' # <<>>]_vars

\* Two such turns in a row, and a third request.
C33_Witness ==
  /\ Len(requests) = 3
  /\ pc = "Streaming"
  /\ Len(workingHistory) = Len(history) + 2
  /\ \A j \in 1..2 :
       /\ workingHistory[Len(history) + j].hasToolCalls
       /\ workingHistory[Len(history) + j].toolCalls = <<>>
  /\ Len(SelectSeq(events, LAMBDA e : e.type = "tool_call")) = 2
  /\ recentToolCalls = <<>>
  /\ executions = <<>>

\* The parameter a default capability requires, and the typeof / isArray
\* result its schema declares for it.
RequiredField(name) ==
  IF name = SearchHeadings THEN <<"query">>
  ELSE IF name = SearchSections THEN <<"section_number">>
  ELSE <<"chunk_ids">>

RequiredType(name) == IF name = GetChunks THEN "arr" ELSE "str"

RequiredIsWrong ==
  /\ directName \in {SearchHeadings, SearchSections, GetChunks}
  /\ Get(directArgs, RequiredField(directName)).t # RequiredType(directName)

\* C34: a default capability executed with a mapping in which its required
\* parameter is missing or of the wrong type returns (it does not throw) a
\* JSON object with an error string that names the missing field.
C34_MissingParamRejected ==
  (directOutcome # NotRun /\ RequiredIsWrong) =>
    /\ directOutcome.kind = "return"
    /\ IsErrorObject(directOutcome.message)
    /\ Len(JSONparse(directOutcome.message).v.kv) = 1
    /\ IsPrefix(<<"Missing required field: ">> \o RequiredField(directName),
                ErrorText(directOutcome.message))

\* get_chunks has rejected the placeholder of arguments that did not parse.
C34_Witness ==
  /\ directName = GetChunks
  /\ directArgs = ParseErrorArgs(ArgsOpen)
  /\ directOutcome =
       Returned(<<"{", Q, "error", Q, ":", Q, "Missing required field: ",
                  "chunk_ids", " (must be an array)", Q, "}">>)

\* The chunk_ids array of the call, and the parsed result of get_chunks.
RequestedIds == Get(directArgs, <<"chunk_ids">>).kv

ChunksResult == JSONparse(directOutcome.message).v

\* The id is the id of a chunk of the document.
InIndex(id) ==
  id.t = "str" /\ \E j \in 1..Len(data.chunks) : data.chunks[j].id = id.s

\* The chunk of the document with this id, as get_chunks reports it.
Reported(id) ==
  LET c == data.chunks[CHOOSE j \in 1..Len(data.chunks) : data.chunks[j].id = id.s]
  IN JObj(<<Member(<<"id">>, id),
            Member(<<"content">>, JStr(c.content)),
            Member(<<"pageStart">>, JNum(NumStr(c.pageStart))),
            Member(<<"pageEnd">>, JNum(NumStr(c.pageEnd))),
            Member(<<"blockIds">>, StrArray(c.blockIds))>>)

\* Going through the requested ids in order, each one is the next returned
\* chunk if it is in the index and the next notFound entry otherwise, and
\* nothing is left over.
RECURSIVE Partitions(_, _, _)
Partitions(ids, chunks, notFound) ==
  IF ids = <<>> THEN chunks = <<>> /\ notFound = <<>>
  ELSE IF InIndex(Head(ids).v)
       THEN /\ chunks # <<>>
            /\ Head(chunks).v = Reported(Head(ids).v)
            /\ Partitions(Tail(ids), Tail(chunks), notFound)
       ELSE /\ notFound # <<>>
            /\ Head(notFound).v = Head(ids).v
            /\ Partitions(Tail(ids), chunks, Tail(notFound))

\* C35: for a chunk_ids array, the result of get_chunks is an object whose
\* chunks and notFound lists partition the requested ids in request order
\* and with multiplicity (found ids with their chunk's content and pages,
\* the others in notFound, none in both), whose found is the number of
\* returned chunks, with found plus the number of notFound ids the number of
\* requested ids, and which has no notFound member exactly when every id
\* was found.
C35_GetChunksPartitions ==
  (/\ directName = GetChunks
   /\ directOutcome # NotRun
   /\ Get(directArgs, <<"chunk_ids">>).t = "arr") =>
    /\ directOutcome.kind = "return"
    /\ JSONparse(directOutcome.message).ok
    /\ ChunksResult.t = "obj"
    /\ LET found == Get(ChunksResult, <<"found">>)
           chunks == Get(ChunksResult, <<"chunks">>)
           notFound == Get(ChunksResult, <<"notFound">>)
           missing == IF notFound = JUndefined THEN <<>> ELSE notFound.kv
       IN /\ chunks.t = "arr"
          /\ notFound.t \in {"arr", "undefined"}
          /\ Partitions(RequestedIds, chunks.kv, missing)
          /\ \A j \in 1..Len(chunks.kv), k \in 1..Len(missing) :
               Get(chunks.kv[j].v, <<"id">>) # missing[k].v
          /\ found = JNum(NumStr(Len(chunks.kv)))
          /\ Len(chunks.kv) + Len(missing) = Len(RequestedIds)
          /\ (notFound = JUndefined) <=>
               (\A j \in 1..Len(RequestedIds) : InIndex(RequestedIds[j].v))
          /\ [j \in 1..Len(ChunksResult.kv) |-> ChunksResult.kv[j].k] \in
               {<< <<"found">>, <<"chunks">> >>,
                << <<"found">>, <<"chunks">>, <<"notFound">> >>}

\* chunk-1 is requested twice around an id that is not in the index.
C35_Witness ==
  /\ directName = GetChunks
  /\ directOutcome # NotRun
  /\ RequestedIds = <<Member(<<>>, JStr(<<"chunk-1">>)), Member(<<>>, JStr(<<"chunk-9">>)),
                      Member(<<>>, JStr(<<"chunk-1">>))>>
  /\ Get(ChunksResult, <<"found">>) = JNum(<<"2">>)
  /\ Len(Get(ChunksResult, <<"chunks">>).kv) = 2
  /\ Get(ChunksResult, <<"notFound">>) = StrArray(<< <<"chunk-9">> >>)

=============================================================================
